---- MODULE Spec2Model ----
(***************************************************************************)
(* A model of rtrb (src/src/lib.rs): a bounded single-producer             *)
(* single-consumer ring buffer.  The shared state is the RingBuffer (two   *)
(* atomic indices over 0 .. 2*capacity-1 and the slot storage); each       *)
(* endpoint has a private copy of both indices.  Every access to shared    *)
(* memory (an atomic load or store of an index, a read or write of a slot) *)
(* is one step of the endpoint that makes it, so that the two endpoints    *)
(* interleave at the granularity of single memory accesses.  The two       *)
(* endpoints run on two threads.  An index is stored with Ordering::Release*)
(* by the one endpoint that owns it and loaded with Ordering::Acquire by   *)
(* the other: such a load returns the latest store or any older one that   *)
(* is not older than a store this endpoint has loaded before.  A slot is   *)
(* plain memory, read or written only between a load and a store of the    *)
(* index that hands it over.                                               *)
(***************************************************************************)
EXTENDS Integers, Sequences, FiniteSets, TLC

\* ------------------------------------------------------------------ bounds

\* Largest capacity handed to RingBuffer::new.
MaxCapacity == 2
\* Largest element value offered to push or written into a chunk.
MaxVal == 2
\* Width of usize in bits, scaled down.
UsizeBits == 6
\* Longest history followed in a queue that is used and then dropped.
MaxHistoryUnit == 3
\* Largest index of a queue of zero-sized elements from which a store to
\* that index is followed.
MaxPositionUnit == 6
\* Number of values the producer thread of the two-thread run sends.
NumValues == 3
\* Content of a slot that has never been written (Vec::with_capacity leaves
\* the allocation uninitialized).
Uninit == 0

Values == 1 .. MaxVal

\* The one value of a zero-sized element type such as ().
Unit == 1

\* Default::default() of an element type that is Copy + Default: one of its
\* values.
Default == 1

\* usize arithmetic: a result outside 0 .. usize::MAX wraps modulo
\* 2^UsizeBits in a build without overflow checks and panics in a build with
\* them (Overflows, below); isize::MAX bounds the bytes of an allocation.
Modulus == 2 ^ UsizeBits
usize(x) == x % Modulus
isize_MAX == Modulus \div 2 - 1

\* ------------------------------------------------------------------- state

VARIABLES
    capacity,   \* RingBuffer::capacity
    overflow_checks,
                \* whether the crate is built with overflow checks (the
                \* default of a debug build) or without (of a release build)
    head,       \* RingBuffer::head (atomic)
    tail,       \* RingBuffer::tail (atomic)
    slots,      \* the storage behind RingBuffer::data_ptr
    head_mo,    \* the stores to RingBuffer::head that a load by the Producer
                \* can return, oldest first; the last one is `head`
    tail_mo,    \* the stores to RingBuffer::tail that a load by the Consumer
                \* can return, oldest first; the last one is `tail`
    p_head,     \* Producer::head (possibly stale copy of head)
    p_tail,     \* Producer::tail
    p_pc,       \* where the Producer's current operation stands
    p_chunk,    \* the live WriteChunkMaybeUninit
    p_ret,      \* the Producer's current call and its result
    c_head,     \* Consumer::head
    c_tail,     \* Consumer::tail (possibly stale copy of tail)
    c_pc,       \* where the Consumer's current operation stands
    c_val,      \* the local `value` read by pop
    c_chunk,    \* the live ReadChunk
    c_ret,      \* the Consumer's current call and its result
    pushed,     \* history: the values published by stores to tail, in order,
                \* less the prefix matched by consumed values
    popped,     \* history: the values consumed by stores to head, in order,
                \* less the prefix that matched the values published
    live,       \* history: the slots whose value has been published by a
                \* store to tail and not consumed by a store to head
    d_pc,       \* where the RingBuffer stands: alive, inside Drop::drop, gone
    d_head,     \* the local `head` of Drop::drop
    sent,       \* the values a producer thread has pushed so far
    received,   \* the values a consumer thread has popped so far
    t_pc        \* where the thread of the round trip stands

shared == <<capacity, overflow_checks, head, tail, slots, head_mo, tail_mo>>
pvars == <<p_head, p_tail, p_pc, p_chunk, p_ret>>
cvars == <<c_head, c_tail, c_pc, c_val, c_chunk, c_ret>>
dvars == <<d_pc, d_head>>
tvars == <<sent, received, t_pc>>
vars == <<capacity, overflow_checks, head, tail, slots, head_mo, tail_mo,
          p_head, p_tail, p_pc, p_chunk, p_ret,
          c_head, c_tail, c_pc, c_val, c_chunk, c_ret,
          pushed, popped, live, d_pc, d_head, sent, received, t_pc>>

\* ------------------------------------------------------ position arithmetic

\* Whether the usize operation of exact result x panics: the result is out
\* of range and the build has overflow checks.
Overflows(x) == overflow_checks /\ (x < 0 \/ x >= Modulus)

\* RingBuffer::collapse_position
collapse_position(pos) ==
    IF pos < capacity THEN pos ELSE pos - capacity

\* RingBuffer::increment
increment(pos, n) ==
    LET threshold == usize(2 * capacity - n)
    IN  IF pos < threshold THEN usize(pos + n) ELSE pos - threshold

\* RingBuffer::increment panics: 2 * self.capacity, the subtraction of n
\* from it or pos + n overflows.
increment_panics(pos, n) ==
    \/ Overflows(2 * capacity)
    \/ Overflows(2 * capacity - n)
    \/ pos < 2 * capacity - n /\ Overflows(pos + n)

\* RingBuffer::increment1
increment1(pos) ==
    IF pos < usize(2 * capacity - 1) THEN usize(pos + 1) ELSE 0

\* RingBuffer::increment1 panics: 2 * self.capacity, the subtraction of 1
\* from it or pos + 1 overflows.
increment1_panics(pos) ==
    \/ Overflows(2 * capacity)
    \/ Overflows(2 * capacity - 1)
    \/ pos < 2 * capacity - 1 /\ Overflows(pos + 1)

\* RingBuffer::distance
distance(a, b) ==
    IF a <= b THEN b - a ELSE usize(2 * capacity - a + b)

\* RingBuffer::distance panics: a is above b and 2 * self.capacity or the
\* subtraction of a from it overflows.
distance_panics(a, b) ==
    /\ a > b
    /\ Overflows(2 * capacity) \/ Overflows(2 * capacity - a)

\* n.min(m)
Min(n, m) == IF n <= m THEN n ELSE m

\* ----------------------------------------------------------- atomic indices

\* AtomicUsize::store(v, Ordering::Release) of an index by the endpoint that
\* owns it: the stores the other endpoint can load from now on.  A store of
\* the value the index holds already (a commit of no slot) adds none: no
\* load can tell the two stores apart.
Release(mo, v) == IF mo[Len(mo)] = v THEN mo ELSE Append(mo, v)

\* AtomicUsize::load(Ordering::Acquire) of an index by the endpoint that does
\* not own it: the stores left for this endpoint's later loads once a load
\* has returned the i-th of the stores it could return.  The stores before
\* it are gone for this endpoint (a later load of one atomic never returns
\* an older store than an earlier load did).
Acquire(mo, i) == SubSeq(mo, i, Len(mo))

\* -------------------------------------------------------------- chunk views

\* No chunk is alive.
NoChunk ==
    [first |-> 0, first_len |-> 0, second_len |-> 0, written |-> 0,
     iterated |-> 0]

\* WriteChunkMaybeUninit::len / ReadChunk::len
ChunkLen(ch) == ch.first_len + ch.second_len

\* The slot behind the i-th element (0-based) of a chunk: first_ptr.add(i)
\* inside the first slice, second_ptr.add(i - first_len) inside the second.
ChunkSlot(ch, i) ==
    IF i < ch.first_len THEN ch.first + i ELSE i - ch.first_len

\* The slots a chunk exposes through as_mut_slices / as_slices.
ChunkSlots(ch) == { ChunkSlot(ch, i) : i \in 0 .. ChunkLen(ch) - 1 }

\* The contents of the first k slots of a chunk, in the chunk's order.
ChunkValues(ch, k) == [ i \in 1 .. k |-> slots[ChunkSlot(ch, i - 1)] ]

\* The histories after the values vs are consumed.  The sequence of all
\* values ever published and the sequence of all values ever consumed grow
\* without bound; only what is left of them after cancelling their common
\* prefix is kept.  A consumed value that equals the oldest published value
\* not yet consumed cancels it; any other consumed value stays in `popped`
\* for good, so the whole consumed sequence is a prefix of the whole
\* published sequence exactly as long as `popped` is empty.
RECURSIVE Consume(_, _, _)
Consume(pu, po, vs) ==
    IF vs = << >>
    THEN [pushed |-> pu, popped |-> po]
    ELSE IF po = << >> /\ pu # << >> /\ Head(pu) = Head(vs)
         THEN Consume(Tail(pu), po, Tail(vs))
         ELSE Consume(pu, Append(po, Head(vs)), Tail(vs))

\* The call records kept in p_ret and c_ret: the operation; its argument
\* while the call is in progress (0 once it has returned); the kind of result
\* ("pending" until the call returns); the value or count the result carries.
Ret(op, arg, res, val) == [op |-> op, arg |-> arg, res |-> res, val |-> val]

\* ------------------------------------------------------------------- Init

\* The endpoints right after split().
InitEndpoints ==
    /\ p_head = 0
    /\ p_tail = 0
    /\ p_pc = "idle"
    /\ p_chunk = NoChunk
    /\ p_ret = Ret("split", 0, "Ok", 0)
    /\ c_head = 0
    /\ c_tail = 0
    /\ c_pc = "idle"
    /\ c_val = Uninit
    /\ c_chunk = NoChunk
    /\ c_ret = Ret("split", 0, "Ok", 0)
    /\ pushed = << >>
    /\ popped = << >>
    /\ live = {}
    /\ d_pc = "alive"
    /\ d_head = 0
    /\ sent = << >>
    /\ received = << >>
    /\ t_pc = "free"

\* RingBuffer::<T>::new(capacity) followed by split(), for an element type T
\* of one byte or more: Vec::with_capacity allocates capacity * size_of::<T>()
\* bytes, at most isize::MAX, and leaves them uninitialized.
Init ==
    /\ capacity \in 0 .. Min(MaxCapacity, isize_MAX)
    /\ overflow_checks \in BOOLEAN
    /\ head = 0
    /\ tail = 0
    /\ head_mo = <<0>>
    /\ tail_mo = <<0>>
    /\ slots = [ i \in 0 .. capacity - 1 |-> Uninit ]
    /\ InitEndpoints

\* RingBuffer::<()>::new(usize::MAX / 2 + 2) followed by split(): a Vec of a
\* zero-sized type allocates nothing and accepts every capacity, and each of
\* its slots holds the one value of the type.  At the width UsizeBits the
\* capacity is, as at 64 bits, far above the chunk sizes 2 and 3 and above
\* every index of up to MaxPositionUnit.
InitUnit ==
    /\ capacity = isize_MAX + 2
    /\ overflow_checks \in BOOLEAN
    /\ head = 0
    /\ tail = 0
    /\ head_mo = <<0>>
    /\ tail_mo = <<0>>
    /\ slots = [ i \in 0 .. capacity - 1 |-> Unit ]
    /\ InitEndpoints

\* ---------------------------------------------------------------- Producer

\* A next_tail that reports a full queue only beyond the capacity.
next_tail_beyond(h) ==
    IF distance_panics(p_head, p_tail)
    THEN [some |-> FALSE, tail |-> p_tail, head |-> p_head, load |-> FALSE,
          panic |-> TRUE]
    ELSE IF distance(p_head, p_tail) > capacity
    THEN IF distance_panics(h, p_tail)
         THEN [some |-> FALSE, tail |-> p_tail, head |-> h, load |-> TRUE,
               panic |-> TRUE]
         ELSE IF distance(h, p_tail) > capacity
         THEN [some |-> FALSE, tail |-> p_tail, head |-> h, load |-> TRUE,
               panic |-> FALSE]
         ELSE [some |-> TRUE, tail |-> p_tail, head |-> h, load |-> TRUE,
               panic |-> FALSE]
    ELSE [some |-> TRUE, tail |-> p_tail, head |-> p_head, load |-> FALSE,
          panic |-> FALSE]

\* Producer::next_tail: the position to write to, or None when the queue is
\* full; `head` is the new content of Producer::head.  The shared head is
\* loaded only when the cached one says the queue is full (`load`), and h is
\* the value that load returns.  `panic`: a call of distance panics.
next_tail(h) ==
    IF distance_panics(p_head, p_tail)
    THEN [some |-> FALSE, tail |-> p_tail, head |-> p_head, load |-> FALSE,
          panic |-> TRUE]
    ELSE IF distance(p_head, p_tail) = capacity
    THEN IF distance_panics(h, p_tail)
         THEN [some |-> FALSE, tail |-> p_tail, head |-> h, load |-> TRUE,
               panic |-> TRUE]
         ELSE IF distance(h, p_tail) = capacity
         THEN [some |-> FALSE, tail |-> p_tail, head |-> h, load |-> TRUE,
               panic |-> FALSE]
         ELSE [some |-> TRUE, tail |-> p_tail, head |-> h, load |-> TRUE,
               panic |-> FALSE]
    ELSE [some |-> TRUE, tail |-> p_tail, head |-> p_head, load |-> FALSE,
          panic |-> FALSE]

\* Producer::push, up to the return of next_tail.
Push(v) ==
    /\ p_pc = "idle"
    /\ \E i \in DOMAIN head_mo :
       LET r == next_tail(head_mo[i])
       IN  /\ p_head' = r.head
           /\ head_mo' = IF r.load THEN Acquire(head_mo, i) ELSE head_mo
           /\ IF r.panic
              THEN /\ p_pc' = "idle"
                   /\ p_ret' = Ret("push", 0, "panic", 0)
              ELSE IF r.some
              THEN /\ p_pc' = "push_write"
                   /\ p_ret' = Ret("push", v, "pending", 0)
              ELSE /\ p_pc' = "idle"
                   /\ p_ret' = Ret("push", 0, "Full", v)
    /\ UNCHANGED <<capacity, overflow_checks, head, tail, slots, tail_mo,
                   p_tail, p_chunk, cvars, pushed, popped, live,
                   dvars, tvars>>

\* A write that starts over whenever the Consumer has moved the head since
\* the Producer last loaded it.
PushWrite_retry ==
    /\ p_pc = "push_write"
    /\ IF p_head # head
       THEN /\ p_head' = head
            /\ head_mo' = <<head>>
            /\ UNCHANGED <<slots, p_pc>>
       ELSE /\ slots' = [slots EXCEPT ![collapse_position(p_tail)] = p_ret.arg]
            /\ p_pc' = "push_store"
            /\ UNCHANGED <<p_head, head_mo>>
    /\ UNCHANGED <<capacity, overflow_checks, head, tail, tail_mo, p_tail, p_chunk, p_ret,
                   cvars, pushed, popped, live, dvars, tvars>>

\* Producer::push: slot_ptr(tail).write(value)
PushWrite ==
    /\ p_pc = "push_write"
    /\ slots' = [slots EXCEPT ![collapse_position(p_tail)] = p_ret.arg]
    /\ p_pc' = "push_store"
    /\ UNCHANGED <<capacity, overflow_checks, head, tail, head_mo, tail_mo,
                   p_head, p_tail, p_chunk, p_ret,
                   cvars, pushed, popped, live,
                   dvars, tvars>>

\* A store of the tail that leaves Producer::tail as it was.
PushStore_unset ==
    /\ p_pc = "push_store"
    /\ IF increment1_panics(p_tail)
       THEN /\ p_ret' = Ret("push", 0, "panic", 0)
            /\ UNCHANGED <<tail, tail_mo, pushed, live>>
       ELSE /\ tail' = increment1(p_tail)
            /\ tail_mo' = Release(tail_mo, tail')
            /\ pushed' = Append(pushed, p_ret.arg)
            /\ live' = live \cup { collapse_position(p_tail) }
            /\ p_ret' = Ret("push", 0, "Ok", 0)
    /\ p_pc' = "idle"
    /\ UNCHANGED <<capacity, overflow_checks, head, slots, head_mo,
                   p_head, p_tail, p_chunk, cvars,
                   popped, dvars, tvars>>

\* Producer::push: tail = increment1(tail); buffer.tail.store(tail, Release);
\* self.tail.set(tail); Ok(()).  The store is the only access to shared memory
\* in these statements, so they form one step.  When increment1 panics the
\* call unwinds before the store: the value written stays unpublished.
PushStore ==
    /\ p_pc = "push_store"
    /\ IF increment1_panics(p_tail)
       THEN /\ p_ret' = Ret("push", 0, "panic", 0)
            /\ UNCHANGED <<tail, tail_mo, p_tail, pushed, live>>
       ELSE /\ tail' = increment1(p_tail)
            /\ tail_mo' = Release(tail_mo, tail')
            /\ p_tail' = tail'
            /\ pushed' = Append(pushed, p_ret.arg)
            /\ live' = live \cup { collapse_position(p_tail) }
            /\ p_ret' = Ret("push", 0, "Ok", 0)
    /\ p_pc' = "idle"
    /\ UNCHANGED <<capacity, overflow_checks, head, slots, head_mo,
                   p_head, p_chunk, cvars, popped,
                   dvars, tvars>>

\* Producer::is_full
IsFull ==
    /\ p_pc = "idle"
    /\ \E i \in DOMAIN head_mo :
       LET r == next_tail(head_mo[i])
       IN  /\ p_head' = r.head
           /\ head_mo' = IF r.load THEN Acquire(head_mo, i) ELSE head_mo
           /\ p_ret' = Ret("is_full", 0,
                           IF r.panic THEN "panic"
                           ELSE IF r.some THEN "false" ELSE "true", 0)
    /\ UNCHANGED <<capacity, overflow_checks, head, tail, slots, tail_mo,
                   p_tail, p_pc, p_chunk, cvars, pushed, popped, live,
                   dvars, tvars>>

\* Producer::slots: the number of slots available for writing, computed with
\* the value h that the call's load of the shared head returns; `head` is the
\* new Producer::head.  `panic`: distance or the subtraction panics.
producer_slots(h) ==
    [head |-> h, val |-> usize(capacity - distance(h, p_tail)),
     load |-> TRUE,
     panic |-> \/ distance_panics(h, p_tail)
               \/ Overflows(capacity - distance(h, p_tail))]

\* Producer::slots
ProducerSlots ==
    /\ p_pc = "idle"
    /\ \E i \in DOMAIN head_mo :
       LET r == producer_slots(head_mo[i])
       IN  /\ p_head' = r.head
           /\ head_mo' = IF r.load THEN Acquire(head_mo, i) ELSE head_mo
           /\ p_ret' = IF r.panic THEN Ret("slots", 0, "panic", 0)
                        ELSE Ret("slots", 0, "Ok", r.val)
    /\ UNCHANGED <<capacity, overflow_checks, head, tail, slots, tail_mo,
                   p_tail, p_pc, p_chunk, cvars, pushed, popped, live,
                   dvars, tvars>>

\* A write_chunk_maybe_uninit that refuses a request for exactly the number
\* of free slots.
write_chunk_maybe_uninit_strict(n, h) ==
    LET t == collapse_position(p_tail)
        first_len == Min(n, capacity - t)
        chunk == [first |-> t, first_len |-> first_len,
                  second_len |-> n - first_len, written |-> 0,
                  iterated |-> 0]
        panics(x) == \/ distance_panics(x, p_tail)
                     \/ Overflows(capacity - distance(x, p_tail))
    IN  IF panics(p_head)
        THEN [ok |-> FALSE, head |-> p_head, chunk |-> NoChunk, slots |-> 0,
              load |-> FALSE, panic |-> TRUE]
        ELSE IF usize(capacity - distance(p_head, p_tail)) <= n
        THEN IF panics(h)
             THEN [ok |-> FALSE, head |-> h, chunk |-> NoChunk, slots |-> 0,
                   load |-> TRUE, panic |-> TRUE]
             ELSE IF usize(capacity - distance(h, p_tail)) <= n
             THEN [ok |-> FALSE, head |-> h, chunk |-> NoChunk,
                   slots |-> usize(capacity - distance(h, p_tail)),
                   load |-> TRUE, panic |-> FALSE]
             ELSE [ok |-> TRUE, head |-> h, chunk |-> chunk, slots |-> 0,
                   load |-> TRUE, panic |-> FALSE]
        ELSE [ok |-> TRUE, head |-> p_head, chunk |-> chunk, slots |-> 0,
              load |-> FALSE, panic |-> FALSE]

\* Producer::write_chunk_maybe_uninit(n): the chunk, or the number of free
\* slots when there are fewer than n; `head` is the new Producer::head.  The
\* shared head is loaded only when the cached one leaves fewer than n slots
\* (`load`), and h is the value that load returns.  `panic`: distance or the
\* subtraction of its result from the capacity panics.
write_chunk_maybe_uninit(n, h) ==
    LET t == collapse_position(p_tail)
        first_len == Min(n, capacity - t)
        chunk == [first |-> t, first_len |-> first_len,
                  second_len |-> n - first_len, written |-> 0,
                  iterated |-> 0]
        panics(x) == \/ distance_panics(x, p_tail)
                     \/ Overflows(capacity - distance(x, p_tail))
    IN  IF panics(p_head)
        THEN [ok |-> FALSE, head |-> p_head, chunk |-> NoChunk, slots |-> 0,
              load |-> FALSE, panic |-> TRUE]
        ELSE IF usize(capacity - distance(p_head, p_tail)) < n
        THEN IF panics(h)
             THEN [ok |-> FALSE, head |-> h, chunk |-> NoChunk, slots |-> 0,
                   load |-> TRUE, panic |-> TRUE]
             ELSE IF usize(capacity - distance(h, p_tail)) < n
             THEN [ok |-> FALSE, head |-> h, chunk |-> NoChunk,
                   slots |-> usize(capacity - distance(h, p_tail)),
                   load |-> TRUE, panic |-> FALSE]
             ELSE [ok |-> TRUE, head |-> h, chunk |-> chunk, slots |-> 0,
                   load |-> TRUE, panic |-> FALSE]
        ELSE [ok |-> TRUE, head |-> p_head, chunk |-> chunk, slots |-> 0,
              load |-> FALSE, panic |-> FALSE]

\* Producer::write_chunk_maybe_uninit
WriteChunkMaybeUninit(n) ==
    /\ p_pc = "idle"
    /\ \E i \in DOMAIN head_mo :
       LET r == write_chunk_maybe_uninit(n, head_mo[i])
       IN  /\ p_head' = r.head
           /\ head_mo' = IF r.load THEN Acquire(head_mo, i) ELSE head_mo
           /\ p_chunk' = r.chunk
           /\ IF r.panic
              THEN /\ p_pc' = "idle"
                   /\ p_ret' = Ret("write_chunk_maybe_uninit", 0, "panic", 0)
              ELSE IF r.ok
              THEN /\ p_pc' = "wchunk"
                   /\ p_ret' = Ret("write_chunk_maybe_uninit", 0, "Chunk", n)
              ELSE /\ p_pc' = "idle"
                   /\ p_ret' = Ret("write_chunk_maybe_uninit", 0, "TooFewSlots",
                                   r.slots)
    /\ UNCHANGED <<capacity, overflow_checks, head, tail, slots, tail_mo,
                   p_tail, cvars, pushed, popped, live,
                   dvars, tvars>>

\* Producer::write_chunk(n): write_chunk_maybe_uninit(n), and for a chunk
\* WriteChunk::from, which starts to fill the slots with the default value
\* (a chunk without slots is handed out at once).
WriteChunk(n) ==
    /\ p_pc = "idle"
    /\ \E i \in DOMAIN head_mo :
       LET r == write_chunk_maybe_uninit(n, head_mo[i])
       IN  /\ p_head' = r.head
           /\ head_mo' = IF r.load THEN Acquire(head_mo, i) ELSE head_mo
           /\ p_chunk' = r.chunk
           /\ IF r.panic
              THEN /\ p_pc' = "idle"
                   /\ p_ret' = Ret("write_chunk", 0, "panic", 0)
              ELSE IF r.ok
              THEN IF n = 0
                   THEN /\ p_pc' = "wchunk"
                        /\ p_ret' = Ret("write_chunk", 0, "Chunk", n)
                   ELSE /\ p_pc' = "wfill"
                        /\ p_ret' = Ret("write_chunk", 0, "pending", n)
              ELSE /\ p_pc' = "idle"
                   /\ p_ret' = Ret("write_chunk", 0, "TooFewSlots", r.slots)
    /\ UNCHANGED <<capacity, overflow_checks, head, tail, slots, tail_mo,
                   p_tail, cvars, pushed, popped, live,
                   dvars, tvars>>

\* WriteChunk::from, one turn of its loops: the next slot of the chunk is
\* written with the default value; after the last one the chunk is handed
\* out, all its slots initialized.
WChunkFill ==
    /\ p_pc = "wfill"
    /\ slots' = [slots EXCEPT ![ChunkSlot(p_chunk, p_chunk.written)] = Default]
    /\ p_chunk' = [p_chunk EXCEPT !.written = @ + 1]
    /\ IF p_chunk.written + 1 = ChunkLen(p_chunk)
       THEN /\ p_pc' = "wchunk"
            /\ p_ret' = [p_ret EXCEPT !.res = "Chunk"]
       ELSE UNCHANGED <<p_pc, p_ret>>
    /\ UNCHANGED <<capacity, overflow_checks, head, tail, head_mo, tail_mo,
                   p_head, p_tail,
                   cvars, pushed, popped, live, dvars, tvars>>

\* The holder of a chunk whose slots are all initialized assigns to its i-th
\* slot through as_mut_slices.
WChunkSet(i, v) ==
    /\ p_pc = "wchunk"
    /\ p_chunk.written = ChunkLen(p_chunk)
    /\ i < ChunkLen(p_chunk)
    /\ slots' = [slots EXCEPT ![ChunkSlot(p_chunk, i)] = v]
    /\ UNCHANGED <<capacity, overflow_checks, head, tail, head_mo, tail_mo,
                   pvars,
                   cvars, pushed, popped, live, dvars, tvars>>

\* The holder of the chunk initializes its next slot through as_mut_slices.
WChunkWrite(v) ==
    /\ p_pc = "wchunk"
    /\ p_chunk.written < ChunkLen(p_chunk)
    /\ slots' = [slots EXCEPT ![ChunkSlot(p_chunk, p_chunk.written)] = v]
    /\ p_chunk' = [p_chunk EXCEPT !.written = @ + 1]
    /\ UNCHANGED <<capacity, overflow_checks, head, tail, head_mo, tail_mo,
                   p_head, p_tail, p_pc, p_ret,
                   cvars, pushed, popped, live,
                   dvars, tvars>>

\* WriteChunkMaybeUninit::commit(n) and commit_unchecked: n is at most len()
\* (the assert) and the first n slots are initialized (the safety contract of
\* commit); the tail is incremented by n, stored, and set in the Producer.
\* When increment panics the call unwinds before the store and the chunk,
\* moved into the call, is gone.
WChunkCommit(k) ==
    /\ p_pc = "wchunk"
    /\ k <= ChunkLen(p_chunk)
    /\ k <= p_chunk.written
    /\ IF increment_panics(p_tail, k)
       THEN /\ p_ret' = Ret("commit", 0, "panic", 0)
            /\ UNCHANGED <<tail, tail_mo, p_tail, pushed, live>>
       ELSE /\ tail' = increment(p_tail, k)
            /\ tail_mo' = Release(tail_mo, tail')
            /\ p_tail' = tail'
            /\ pushed' = pushed \o ChunkValues(p_chunk, k)
            /\ live' = live \cup { ChunkSlot(p_chunk, i) : i \in 0 .. k - 1 }
            /\ p_ret' = Ret("commit", 0, "Ok", 0)
    /\ p_chunk' = NoChunk
    /\ p_pc' = "idle"
    /\ UNCHANGED <<capacity, overflow_checks, head, slots, head_mo,
                   p_head, cvars, popped,
                   dvars, tvars>>

\* WriteChunkMaybeUninit::commit(n), and WriteChunk::commit(n) which calls
\* it, with n above len(): the assert fails and the call panics before
\* commit_unchecked is reached; the chunk, moved into the call, is gone when
\* the unwinding leaves it.
WChunkCommitPanic(k) ==
    /\ p_pc = "wchunk"
    /\ k > ChunkLen(p_chunk)
    /\ p_chunk' = NoChunk
    /\ p_ret' = Ret("commit", 0, "panic", 0)
    /\ p_pc' = "idle"
    /\ UNCHANGED <<shared, p_head, p_tail, cvars, pushed, popped, live,
                   dvars, tvars>>

\* <WriteChunkMaybeUninit as Iterator>::next, and <WriteChunk as
\* Iterator>::next which calls it: a reference to the slot at the cursor
\* `iterated`, in the first slice or in the second, and the cursor moves on;
\* None behind the last slot.  The result carries the slot referred to.
WChunkNext ==
    /\ p_pc = "wchunk"
    /\ IF p_chunk.iterated < p_chunk.first_len
       THEN /\ p_ret' = Ret("next", 0, "Some",
                            p_chunk.first + p_chunk.iterated)
            /\ p_chunk' = [p_chunk EXCEPT !.iterated = @ + 1]
       ELSE IF p_chunk.iterated < p_chunk.first_len + p_chunk.second_len
       THEN /\ p_ret' = Ret("next", 0, "Some",
                            p_chunk.iterated - p_chunk.first_len)
            /\ p_chunk' = [p_chunk EXCEPT !.iterated = @ + 1]
       ELSE /\ p_ret' = Ret("next", 0, "None", 0)
            /\ UNCHANGED p_chunk
    /\ UNCHANGED <<shared, p_head, p_tail, p_pc, cvars, pushed, popped, live,
                   dvars, tvars>>

\* WriteChunkMaybeUninit::commit_iterated: commit_unchecked(self.iterated);
\* the iterated slots are initialized (the safety contract).
WChunkCommitIterated == WChunkCommit(p_chunk.iterated)

\* A drop of the chunk that commits what has been written so far.
WChunkDrop_committing == WChunkCommit(p_chunk.written)

\* The chunk goes out of scope without a commit.
WChunkDrop ==
    /\ p_pc = "wchunk"
    /\ p_chunk' = NoChunk
    /\ p_ret' = Ret("drop_chunk", 0, "Ok", 0)
    /\ p_pc' = "idle"
    /\ UNCHANGED <<shared, p_head, p_tail, cvars, pushed, popped, live,
                   dvars, tvars>>

\* ---------------------------------------------------------------- Consumer

\* A next_head that trusts the cached tail and never loads the shared one.
next_head_cached(t) ==
    IF c_head = c_tail
    THEN [some |-> FALSE, head |-> c_head, tail |-> c_tail, load |-> FALSE]
    ELSE [some |-> TRUE, head |-> c_head, tail |-> c_tail, load |-> FALSE]

\* Consumer::next_head: the position to read from, or None when the queue is
\* empty; `tail` is the new content of Consumer::tail.  The shared tail is
\* loaded only when the cached one says the queue is empty (`load`), and t is
\* the value that load returns.
next_head(t) ==
    IF c_head = c_tail
    THEN IF c_head = t
         THEN [some |-> FALSE, head |-> c_head, tail |-> t, load |-> TRUE]
         ELSE [some |-> TRUE, head |-> c_head, tail |-> t, load |-> TRUE]
    ELSE [some |-> TRUE, head |-> c_head, tail |-> c_tail, load |-> FALSE]

\* Consumer::pop, up to the return of next_head.
Pop ==
    /\ c_pc = "idle"
    /\ \E i \in DOMAIN tail_mo :
       LET r == next_head(tail_mo[i])
       IN  /\ c_tail' = r.tail
           /\ tail_mo' = IF r.load THEN Acquire(tail_mo, i) ELSE tail_mo
           /\ IF r.some
              THEN /\ c_pc' = "pop_read"
                   /\ c_ret' = Ret("pop", 0, "pending", 0)
              ELSE /\ c_pc' = "idle"
                   /\ c_ret' = Ret("pop", 0, "Empty", 0)
    /\ UNCHANGED <<capacity, overflow_checks, head, tail, slots, head_mo,
                   pvars, c_head, c_val, c_chunk, pushed, popped, live,
                   dvars, tvars>>

\* Consumer::pop: value = slot_ptr(head).read()
PopRead ==
    /\ c_pc = "pop_read"
    /\ c_val' = slots[collapse_position(c_head)]
    /\ c_pc' = "pop_store"
    /\ UNCHANGED <<shared, pvars, c_head, c_tail, c_chunk, c_ret,
                   pushed, popped, live,
                   dvars, tvars>>

\* Consumer::pop: head = increment1(head); buffer.head.store(head, Release);
\* self.head.set(head); Ok(value).  The store is the only access to shared
\* memory in these statements, so they form one step; the local `value` moves
\* into the result.  When increment1 panics the call unwinds before the
\* store and `value` is dropped by the unwinding.
PopStore ==
    /\ c_pc = "pop_store"
    /\ IF increment1_panics(c_head)
       THEN /\ c_ret' = Ret("pop", 0, "panic", 0)
            /\ UNCHANGED <<head, head_mo, c_head>>
       ELSE /\ head' = increment1(c_head)
            /\ head_mo' = Release(head_mo, head')
            /\ c_head' = head'
            /\ c_ret' = Ret("pop", 0, "Ok", c_val)
    /\ LET h == Consume(pushed, popped, <<c_val>>)
       IN  pushed' = h.pushed /\ popped' = h.popped
    /\ live' = live \ { collapse_position(c_head) }
    /\ c_val' = Uninit
    /\ c_pc' = "idle"
    /\ UNCHANGED <<capacity, overflow_checks, tail, slots, tail_mo,
                   pvars, c_tail, c_chunk,
                   dvars, tvars>>

\* Consumer::peek, up to the return of next_head.
Peek ==
    /\ c_pc = "idle"
    /\ \E i \in DOMAIN tail_mo :
       LET r == next_head(tail_mo[i])
       IN  /\ c_tail' = r.tail
           /\ tail_mo' = IF r.load THEN Acquire(tail_mo, i) ELSE tail_mo
           /\ IF r.some
              THEN /\ c_pc' = "peek_read"
                   /\ c_ret' = Ret("peek", 0, "pending", 0)
              ELSE /\ c_pc' = "idle"
                   /\ c_ret' = Ret("peek", 0, "Empty", 0)
    /\ UNCHANGED <<capacity, overflow_checks, head, tail, slots, head_mo,
                   pvars, c_head, c_val, c_chunk, pushed, popped, live,
                   dvars, tvars>>

\* The caller of peek reads through the reference &*slot_ptr(head).
PeekRead ==
    /\ c_pc = "peek_read"
    /\ c_ret' = [c_ret EXCEPT !.res = "Ok",
                              !.val = slots[collapse_position(c_head)]]
    /\ c_pc' = "idle"
    /\ UNCHANGED <<shared, pvars, c_head, c_tail, c_val, c_chunk,
                   pushed, popped, live,
                   dvars, tvars>>

\* Consumer::is_empty
IsEmpty ==
    /\ c_pc = "idle"
    /\ \E i \in DOMAIN tail_mo :
       LET r == next_head(tail_mo[i])
       IN  /\ c_tail' = r.tail
           /\ tail_mo' = IF r.load THEN Acquire(tail_mo, i) ELSE tail_mo
           /\ c_ret' = Ret("is_empty", 0, IF r.some THEN "false" ELSE "true", 0)
    /\ UNCHANGED <<capacity, overflow_checks, head, tail, slots, head_mo,
                   pvars, c_head, c_pc, c_val, c_chunk,
                   pushed, popped, live,
                   dvars, tvars>>

\* Consumer::slots: the number of slots available for reading, computed with
\* the value t that the call's load of the shared tail returns; `tail` is the
\* new Consumer::tail.  `panic`: distance panics.
consumer_slots(t) ==
    [tail |-> t, val |-> distance(c_head, t), load |-> TRUE,
     panic |-> distance_panics(c_head, t)]

\* Consumer::slots
ConsumerSlots ==
    /\ c_pc = "idle"
    /\ \E i \in DOMAIN tail_mo :
       LET r == consumer_slots(tail_mo[i])
       IN  /\ c_tail' = r.tail
           /\ tail_mo' = IF r.load THEN Acquire(tail_mo, i) ELSE tail_mo
           /\ c_ret' = IF r.panic THEN Ret("slots", 0, "panic", 0)
                        ELSE Ret("slots", 0, "Ok", r.val)
    /\ UNCHANGED <<capacity, overflow_checks, head, tail, slots, head_mo,
                   pvars, c_head, c_pc, c_val, c_chunk,
                   pushed, popped, live, dvars, tvars>>

\* Consumer::read_chunk(n): the chunk, or the number of filled slots when
\* there are fewer than n; `tail` is the new Consumer::tail.  The shared
\* tail is loaded only when the cached one leaves fewer than n slots
\* (`load`), and t is the value that load returns.  `panic`: a call of
\* distance panics.
read_chunk(n, t) ==
    LET h == collapse_position(c_head)
        first_len == Min(n, capacity - h)
        chunk == [first |-> h, first_len |-> first_len,
                  second_len |-> n - first_len, written |-> 0,
                  iterated |-> 0]
    IN  IF distance_panics(c_head, c_tail)
        THEN [ok |-> FALSE, tail |-> c_tail, chunk |-> NoChunk, slots |-> 0,
              load |-> FALSE, panic |-> TRUE]
        ELSE IF distance(c_head, c_tail) < n
        THEN IF distance_panics(c_head, t)
             THEN [ok |-> FALSE, tail |-> t, chunk |-> NoChunk, slots |-> 0,
                   load |-> TRUE, panic |-> TRUE]
             ELSE IF distance(c_head, t) < n
             THEN [ok |-> FALSE, tail |-> t, chunk |-> NoChunk,
                   slots |-> distance(c_head, t), load |-> TRUE,
                   panic |-> FALSE]
             ELSE [ok |-> TRUE, tail |-> t, chunk |-> chunk, slots |-> 0,
                   load |-> TRUE, panic |-> FALSE]
        ELSE [ok |-> TRUE, tail |-> c_tail, chunk |-> chunk, slots |-> 0,
              load |-> FALSE, panic |-> FALSE]

\* Consumer::read_chunk
ReadChunk(n) ==
    /\ c_pc = "idle"
    /\ \E i \in DOMAIN tail_mo :
       LET r == read_chunk(n, tail_mo[i])
       IN  /\ c_tail' = r.tail
           /\ tail_mo' = IF r.load THEN Acquire(tail_mo, i) ELSE tail_mo
           /\ c_chunk' = r.chunk
           /\ IF r.panic
              THEN /\ c_pc' = "idle"
                   /\ c_ret' = Ret("read_chunk", 0, "panic", 0)
              ELSE IF r.ok
              THEN /\ c_pc' = "rchunk"
                   /\ c_ret' = Ret("read_chunk", 0, "Chunk", n)
              ELSE /\ c_pc' = "idle"
                   /\ c_ret' = Ret("read_chunk", 0, "TooFewSlots", r.slots)
    /\ UNCHANGED <<capacity, overflow_checks, head, tail, slots, head_mo,
                   pvars, c_head, c_val, pushed, popped, live,
                   dvars, tvars>>

\* ReadChunk::commit(n) and commit_unchecked: n is at most len() (the
\* assert); the first n slots are dropped in place, the head is incremented
\* by n, stored, and set in the Consumer.  When increment panics the call
\* unwinds after the slots are dropped and before the store.
RChunkCommit(k) ==
    /\ c_pc = "rchunk"
    /\ k <= ChunkLen(c_chunk)
    /\ IF increment_panics(c_head, k)
       THEN /\ c_ret' = Ret("commit", 0, "panic", 0)
            /\ UNCHANGED <<head, head_mo, c_head>>
       ELSE /\ head' = increment(c_head, k)
            /\ head_mo' = Release(head_mo, head')
            /\ c_head' = head'
            /\ c_ret' = Ret("commit", 0, "Ok", 0)
    /\ LET h == Consume(pushed, popped, ChunkValues(c_chunk, k))
       IN  pushed' = h.pushed /\ popped' = h.popped
    /\ live' = live \ { ChunkSlot(c_chunk, i) : i \in 0 .. k - 1 }
    /\ c_chunk' = NoChunk
    /\ c_pc' = "idle"
    /\ UNCHANGED <<capacity, overflow_checks, tail, slots, tail_mo,
                   pvars, c_tail, c_val,
                   dvars, tvars>>

\* <ReadChunk as Iterator>::next: a reference to the slot at the cursor
\* `iterated`, in the first slice or in the second, and the cursor moves on;
\* None behind the last slot.  The result carries the slot referred to.
RChunkNext ==
    /\ c_pc = "rchunk"
    /\ IF c_chunk.iterated < c_chunk.first_len
       THEN /\ c_ret' = Ret("next", 0, "Some",
                            c_chunk.first + c_chunk.iterated)
            /\ c_chunk' = [c_chunk EXCEPT !.iterated = @ + 1]
       ELSE IF c_chunk.iterated < c_chunk.first_len + c_chunk.second_len
       THEN /\ c_ret' = Ret("next", 0, "Some",
                            c_chunk.iterated - c_chunk.first_len)
            /\ c_chunk' = [c_chunk EXCEPT !.iterated = @ + 1]
       ELSE /\ c_ret' = Ret("next", 0, "None", 0)
            /\ UNCHANGED c_chunk
    /\ UNCHANGED <<shared, pvars, c_head, c_tail, c_pc, c_val,
                   pushed, popped, live, dvars, tvars>>

\* ReadChunk::commit_iterated: commit_unchecked(self.iterated)
RChunkCommitIterated == RChunkCommit(c_chunk.iterated)

\* A commit that checks its argument only after the loops that drop the
\* slots: the slots of the chunk are dropped, then the assert fails.
RChunkCommitPanic_afterdrop(k) ==
    /\ c_pc = "rchunk"
    /\ k > ChunkLen(c_chunk)
    /\ LET h == Consume(pushed, popped, ChunkValues(c_chunk, ChunkLen(c_chunk)))
       IN  pushed' = h.pushed /\ popped' = h.popped
    /\ live' = live \ ChunkSlots(c_chunk)
    /\ c_chunk' = NoChunk
    /\ c_ret' = Ret("commit", 0, "panic", 0)
    /\ c_pc' = "idle"
    /\ UNCHANGED <<shared, pvars, c_head, c_tail, c_val, dvars, tvars>>

\* ReadChunk::commit(n) with n above len(): the assert fails and the call
\* panics before commit_unchecked is reached; the chunk, moved into the
\* call, is gone when the unwinding leaves it.
RChunkCommitPanic(k) ==
    /\ c_pc = "rchunk"
    /\ k > ChunkLen(c_chunk)
    /\ c_chunk' = NoChunk
    /\ c_ret' = Ret("commit", 0, "panic", 0)
    /\ c_pc' = "idle"
    /\ UNCHANGED <<shared, pvars, c_head, c_tail, c_val, pushed, popped, live,
                   dvars, tvars>>

\* The chunk goes out of scope without a commit.
RChunkDrop ==
    /\ c_pc = "rchunk"
    /\ c_chunk' = NoChunk
    /\ c_ret' = Ret("drop_chunk", 0, "Ok", 0)
    /\ c_pc' = "idle"
    /\ UNCHANGED <<shared, pvars, c_head, c_tail, c_val, pushed, popped, live,
                   dvars, tvars>>

\* ------------------------------------------------------------ byte adapters

\* <Producer<u8> as std::io::Write>::write(buf), its first request:
\* write_chunk_maybe_uninit(buf.len()).  A chunk is copied into next; on
\* TooFewSlots(n) with n > 0 the request is made again for n slots; on
\* TooFewSlots(0) the call returns the error WouldBlock.  While the call is
\* in progress p_ret holds buf (the empty string once the call has returned)
\* and the number of slots asked for last.
IoWrite(buf) ==
    /\ p_pc = "idle"
    /\ \E i \in DOMAIN head_mo :
       LET r == write_chunk_maybe_uninit(Len(buf), head_mo[i])
       IN  /\ p_head' = r.head
           /\ head_mo' = IF r.load THEN Acquire(head_mo, i) ELSE head_mo
           /\ p_chunk' = r.chunk
           /\ IF r.panic
              THEN /\ p_pc' = "idle"
                   /\ p_ret' = Ret("write", << >>, "panic", 0)
              ELSE IF r.ok
              THEN /\ p_pc' = "io_copy"
                   /\ p_ret' = Ret("write", buf, "pending", Len(buf))
              ELSE IF r.slots > 0
              THEN /\ p_pc' = "io_retry"
                   /\ p_ret' = Ret("write", buf, "pending", r.slots)
              ELSE /\ p_pc' = "idle"
                   /\ p_ret' = Ret("write", << >>, "WouldBlock", 0)
    /\ UNCHANGED <<capacity, overflow_checks, head, tail, slots, tail_mo,
                   p_tail, cvars, pushed, popped, live,
                   dvars, tvars>>

\* write: the second request, self.write_chunk_maybe_uninit(n); any error
\* it returns becomes WouldBlock.
IoWriteRetry ==
    /\ p_pc = "io_retry"
    /\ \E i \in DOMAIN head_mo :
       LET r == write_chunk_maybe_uninit(p_ret.val, head_mo[i])
       IN  /\ p_head' = r.head
           /\ head_mo' = IF r.load THEN Acquire(head_mo, i) ELSE head_mo
           /\ p_chunk' = r.chunk
           /\ IF r.panic
              THEN /\ p_pc' = "idle"
                   /\ p_ret' = Ret("write", << >>, "panic", 0)
              ELSE IF r.ok
              THEN /\ p_pc' = "io_copy"
                   /\ UNCHANGED p_ret
              ELSE /\ p_pc' = "idle"
                   /\ p_ret' = Ret("write", << >>, "WouldBlock", 0)
    /\ UNCHANGED <<capacity, overflow_checks, head, tail, slots, tail_mo,
                   p_tail, cvars, pushed, popped, live,
                   dvars, tvars>>

\* A copy that fills the second slice from the start of buf again.
IoWriteCopy_nomid ==
    /\ p_pc = "io_copy"
    /\ p_chunk.written < ChunkLen(p_chunk)
    /\ slots' = [slots EXCEPT ![ChunkSlot(p_chunk, p_chunk.written)] =
                    IF p_chunk.written < p_chunk.first_len
                    THEN p_ret.arg[p_chunk.written + 1]
                    ELSE p_ret.arg[p_chunk.written - p_chunk.first_len + 1]]
    /\ p_chunk' = [p_chunk EXCEPT !.written = @ + 1]
    /\ UNCHANGED <<capacity, overflow_checks, head, tail, head_mo, tail_mo,
                   p_head, p_tail, p_pc, p_ret,
                   cvars, pushed, popped, live, dvars, tvars>>

\* write: the two copy_nonoverlapping calls, one byte of buf at a time:
\* buf[.. mid] into the first slice, buf[mid .. end] into the second.
IoWriteCopy ==
    /\ p_pc = "io_copy"
    /\ p_chunk.written < ChunkLen(p_chunk)
    /\ slots' = [slots EXCEPT ![ChunkSlot(p_chunk, p_chunk.written)] =
                    p_ret.arg[p_chunk.written + 1]]
    /\ p_chunk' = [p_chunk EXCEPT !.written = @ + 1]
    /\ UNCHANGED <<capacity, overflow_checks, head, tail, head_mo, tail_mo,
                   p_head, p_tail, p_pc, p_ret,
                   cvars, pushed, popped, live, dvars, tvars>>

\* write: chunk.commit_all() and Ok(end), end being the length of the chunk.
IoWriteCommit ==
    /\ p_pc = "io_copy"
    /\ p_chunk.written = ChunkLen(p_chunk)
    /\ IF increment_panics(p_tail, ChunkLen(p_chunk))
       THEN /\ p_ret' = Ret("write", << >>, "panic", 0)
            /\ UNCHANGED <<tail, tail_mo, p_tail, pushed, live>>
       ELSE /\ tail' = increment(p_tail, ChunkLen(p_chunk))
            /\ tail_mo' = Release(tail_mo, tail')
            /\ p_tail' = tail'
            /\ pushed' = pushed \o ChunkValues(p_chunk, ChunkLen(p_chunk))
            /\ live' = live \cup ChunkSlots(p_chunk)
            /\ p_ret' = Ret("write", << >>, "Ok", ChunkLen(p_chunk))
    /\ p_chunk' = NoChunk
    /\ p_pc' = "idle"
    /\ UNCHANGED <<capacity, overflow_checks, head, slots, head_mo,
                   p_head, cvars, popped,
                   dvars, tvars>>

\* <Consumer<u8> as std::io::Read>::read(buf) with a buf of m bytes, its
\* first request: read_chunk(buf.len()), with the same handling of
\* TooFewSlots.  While the call is in progress c_ret holds the number of
\* slots asked for last and what has been copied into buf.
IoRead(m) ==
    /\ c_pc = "idle"
    /\ \E i \in DOMAIN tail_mo :
       LET r == read_chunk(m, tail_mo[i])
       IN  /\ c_tail' = r.tail
           /\ tail_mo' = IF r.load THEN Acquire(tail_mo, i) ELSE tail_mo
           /\ c_chunk' = r.chunk
           /\ IF r.panic
              THEN /\ c_pc' = "idle"
                   /\ c_ret' = Ret("read", 0, "panic", << >>)
              ELSE IF r.ok
              THEN /\ c_pc' = "io_copy"
                   /\ c_ret' = Ret("read", m, "pending", << >>)
              ELSE IF r.slots > 0
              THEN /\ c_pc' = "io_retry"
                   /\ c_ret' = Ret("read", r.slots, "pending", << >>)
              ELSE /\ c_pc' = "idle"
                   /\ c_ret' = Ret("read", 0, "WouldBlock", << >>)
    /\ UNCHANGED <<capacity, overflow_checks, head, tail, slots, head_mo,
                   pvars, c_head, c_val, pushed, popped, live,
                   dvars, tvars>>

\* read: the second request, self.read_chunk(n); any error it returns
\* becomes WouldBlock.
IoReadRetry ==
    /\ c_pc = "io_retry"
    /\ \E i \in DOMAIN tail_mo :
       LET r == read_chunk(c_ret.arg, tail_mo[i])
       IN  /\ c_tail' = r.tail
           /\ tail_mo' = IF r.load THEN Acquire(tail_mo, i) ELSE tail_mo
           /\ c_chunk' = r.chunk
           /\ IF r.panic
              THEN /\ c_pc' = "idle"
                   /\ c_ret' = Ret("read", 0, "panic", << >>)
              ELSE IF r.ok
              THEN /\ c_pc' = "io_copy"
                   /\ UNCHANGED c_ret
              ELSE /\ c_pc' = "idle"
                   /\ c_ret' = Ret("read", 0, "WouldBlock", << >>)
    /\ UNCHANGED <<capacity, overflow_checks, head, tail, slots, head_mo,
                   pvars, c_head, c_val, pushed, popped, live,
                   dvars, tvars>>

\* read: the two copy_from_slice calls, one byte at a time: the first slice
\* into buf[.. mid], the second into buf[mid .. end].
IoReadCopy ==
    /\ c_pc = "io_copy"
    /\ c_chunk.written < ChunkLen(c_chunk)
    /\ c_ret' = [c_ret EXCEPT !.val =
                    Append(@, slots[ChunkSlot(c_chunk, c_chunk.written)])]
    /\ c_chunk' = [c_chunk EXCEPT !.written = @ + 1]
    /\ UNCHANGED <<shared, pvars, c_head, c_tail, c_pc, c_val,
                   pushed, popped, live, dvars, tvars>>

\* read: chunk.commit_all() and Ok(end), end being the length of the chunk.
IoReadCommit ==
    /\ c_pc = "io_copy"
    /\ c_chunk.written = ChunkLen(c_chunk)
    /\ IF increment_panics(c_head, ChunkLen(c_chunk))
       THEN /\ c_ret' = Ret("read", 0, "panic", << >>)
            /\ UNCHANGED <<head, head_mo, c_head>>
       ELSE /\ head' = increment(c_head, ChunkLen(c_chunk))
            /\ head_mo' = Release(head_mo, head')
            /\ c_head' = head'
            /\ c_ret' = Ret("read", 0, "Ok", c_ret.val)
    /\ LET h == Consume(pushed, popped, ChunkValues(c_chunk, ChunkLen(c_chunk)))
       IN  pushed' = h.pushed /\ popped' = h.popped
    /\ live' = live \ ChunkSlots(c_chunk)
    /\ c_chunk' = NoChunk
    /\ c_pc' = "idle"
    /\ UNCHANGED <<capacity, overflow_checks, tail, slots, tail_mo,
                   pvars, c_tail, c_val,
                   dvars, tvars>>

\* --------------------------------------------------------------- teardown

\* The Producer goes out of scope and releases its Arc<RingBuffer>; when the
\* Consumer is gone already this was the last reference and Drop::drop of
\* the RingBuffer starts in this thread: it loads head and tail.
DropProducer ==
    /\ p_pc = "idle"
    /\ p_pc' = "dropped"
    /\ p_ret' = Ret("drop", 0, "Ok", 0)
    /\ IF c_pc = "dropped"
       THEN d_pc' = "drop" /\ d_head' = head
       ELSE UNCHANGED dvars
    /\ UNCHANGED <<shared, p_head, p_tail, p_chunk, cvars, pushed, popped,
                   live, tvars>>

\* The Consumer goes out of scope, likewise.
DropConsumer ==
    /\ c_pc = "idle"
    /\ c_pc' = "dropped"
    /\ c_ret' = Ret("drop", 0, "Ok", 0)
    /\ IF p_pc = "dropped"
       THEN d_pc' = "drop" /\ d_head' = head
       ELSE UNCHANGED dvars
    /\ UNCHANGED <<shared, pvars, c_head, c_tail, c_val, c_chunk, pushed,
                   popped, live, tvars>>

\* Drop::drop of the RingBuffer, one turn of its loop: the slot at `head` is
\* dropped in place and `head` is incremented by 1.  The value destroyed
\* leaves the histories as a consumed value does.  When increment panics
\* Drop::drop unwinds: no further slot is dropped.
RingBufferDropSlot ==
    /\ d_pc = "drop"
    /\ d_head # tail
    /\ LET h == Consume(pushed, popped, << slots[collapse_position(d_head)] >>)
       IN  pushed' = h.pushed /\ popped' = h.popped
    /\ live' = live \ { collapse_position(d_head) }
    /\ IF increment_panics(d_head, 1)
       THEN d_pc' = "dropped" /\ UNCHANGED d_head
       ELSE d_head' = increment(d_head, 1) /\ UNCHANGED d_pc
    /\ UNCHANGED <<shared, pvars, cvars, tvars>>

\* Drop::drop of the RingBuffer, after its loop: the buffer is deallocated
\* without running any destructor.
RingBufferDropEnd ==
    /\ d_pc = "drop"
    /\ d_head = tail
    /\ d_pc' = "dropped"
    /\ UNCHANGED <<shared, pvars, cvars, d_head, pushed, popped, live, tvars>>

\* ------------------------------------------------------------ specification

\* The Producer's thread, with chunk sizes up to one more than the capacity.
ProducerStep ==
    \/ \E v \in Values : Push(v)
    \/ PushWrite
    \/ PushStore
    \/ IsFull
    \/ ProducerSlots
    \/ \E n \in 0 .. capacity + 1 : WriteChunkMaybeUninit(n)
    \/ \E v \in Values : WChunkWrite(v)
    \/ \E k \in 0 .. capacity : WChunkCommit(k)
    \/ WChunkDrop

\* The Consumer's thread, with chunk sizes up to one more than the capacity.
ConsumerStep ==
    \/ Pop
    \/ PopRead
    \/ PopStore
    \/ Peek
    \/ PeekRead
    \/ IsEmpty
    \/ ConsumerSlots
    \/ \E n \in 0 .. capacity + 1 : ReadChunk(n)
    \/ \E k \in 0 .. capacity : RChunkCommit(k)
    \/ RChunkDrop

Next == ProducerStep \/ ConsumerStep

\* A queue of elements of one byte or more.
Spec == Init /\ [][Next]_vars

\* The same queue with a scheduler that keeps running some thread.
SpecFair == Spec /\ WF_vars(Next)

\* A producer thread that sends 0, 1, ..., NumValues - 1, calling push again
\* whenever it returns Full, and on Ok goes on to the next value.
ProducerThread ==
    \/ /\ Len(sent) < NumValues
       /\ ~(p_ret.op = "push" /\ p_ret.res = "Ok")
       /\ Push(Len(sent))
    \/ PushWrite
    \/ PushStore
    \/ /\ p_pc = "idle"
       /\ p_ret.op = "push"
       /\ p_ret.res = "Ok"
       /\ sent' = Append(sent, Len(sent))
       /\ p_ret' = Ret("next", 0, "Ok", 0)
       /\ UNCHANGED <<shared, p_head, p_tail, p_pc, p_chunk, cvars, pushed,
                      popped, live, dvars, received, t_pc>>

\* A consumer thread that calls pop, again whenever it returns Empty, until
\* it has received NumValues values.
ConsumerThread ==
    \/ /\ Len(received) < NumValues
       /\ ~(c_ret.op = "pop" /\ c_ret.res = "Ok")
       /\ Pop
    \/ PopRead
    \/ PopStore
    \/ /\ c_pc = "idle"
       /\ c_ret.op = "pop"
       /\ c_ret.res = "Ok"
       /\ received' = Append(received, c_ret.val)
       /\ c_ret' = Ret("next", 0, "Ok", 0)
       /\ UNCHANGED <<shared, pvars, c_head, c_tail, c_pc, c_val, c_chunk,
                      pushed, popped, live, dvars, sent, t_pc>>

NextRetry == ProducerThread \/ ConsumerThread

\* RingBuffer::new(capacity) with a capacity of 1 or more, then split().
InitRetry == Init /\ capacity >= 1

\* The two threads on a queue of capacity 1 or more, under a scheduler that
\* keeps running both and on a machine where a store becomes visible to the
\* other thread in finite time: a thread that keeps loading an index loads
\* its latest store at some point.
SpecRetry ==
    /\ InitRetry
    /\ [][NextRetry]_vars
    /\ WF_vars(ProducerThread)
    /\ WF_vars(ConsumerThread)
    /\ WF_vars(ProducerThread /\ head_mo' = <<head>>)
    /\ WF_vars(ConsumerThread /\ tail_mo' = <<tail>>)

\* The round trip.  One thread owns both endpoints.  The queue is first used
\* in any way by two threads (t_pc = "free"); when it is empty and no call is
\* in progress one thread comes to own both endpoints, pushes values of its
\* choice, as many as it likes up to the capacity, and then pops until pop
\* returns Empty.  Every store made before an endpoint was handed to the
\* thread, and every store the thread has made itself, happens before its
\* later loads, which therefore return the latest store.

\* The round trip starts.
RoundTripStart ==
    /\ t_pc = "free"
    /\ p_pc = "idle"
    /\ c_pc = "idle"
    /\ pushed = << >>
    /\ popped = << >>
    /\ t_pc' = "push"
    /\ head_mo' = <<head>>
    /\ tail_mo' = <<tail>>
    /\ p_ret' = Ret("next", 0, "Ok", 0)
    /\ c_ret' = Ret("next", 0, "Ok", 0)
    /\ UNCHANGED <<capacity, overflow_checks, head, tail, slots, p_head, p_tail, p_pc,
                   p_chunk, c_head, c_tail, c_pc, c_val, c_chunk, pushed,
                   popped, live, dvars, sent, received>>

\* The thread takes v as the next element of xs.
RoundTripPick(v) ==
    /\ t_pc = "push"
    /\ p_pc = "idle"
    /\ p_ret.op = "next"
    /\ Len(sent) < capacity
    /\ sent' = Append(sent, v)
    /\ p_ret' = Ret("pick", 0, "Ok", 0)
    /\ UNCHANGED <<shared, p_head, p_tail, p_pc, p_chunk, cvars, pushed,
                   popped, live, dvars, received, t_pc>>

\* The thread pushes the element taken.
RoundTripPush ==
    /\ t_pc = "push"
    /\ p_ret.op = "pick"
    /\ Push(sent[Len(sent)])

\* The push has returned Ok: on to the next element.
RoundTripPushed ==
    /\ t_pc = "push"
    /\ p_pc = "idle"
    /\ p_ret.op = "push"
    /\ p_ret.res = "Ok"
    /\ p_ret' = Ret("next", 0, "Ok", 0)
    /\ UNCHANGED <<shared, p_head, p_tail, p_pc, p_chunk, cvars, pushed,
                   popped, live, dvars, tvars>>

\* All of xs is pushed: the thread turns to popping.
RoundTripTurn ==
    /\ t_pc = "push"
    /\ p_pc = "idle"
    /\ p_ret.op = "next"
    /\ t_pc' = "pop"
    /\ tail_mo' = <<tail>>
    /\ UNCHANGED <<capacity, overflow_checks, head, tail, slots, head_mo, pvars, cvars, pushed,
                   popped, live, dvars, sent, received>>

\* The thread pops.
RoundTripPop ==
    /\ t_pc = "pop"
    /\ c_ret.op = "next"
    /\ Pop

\* The pop has returned: a value is kept and the thread pops again; Empty
\* ends the round trip.
RoundTripPopped ==
    /\ t_pc = "pop"
    /\ c_pc = "idle"
    /\ c_ret.op = "pop"
    /\ IF c_ret.res = "Ok"
       THEN /\ received' = Append(received, c_ret.val)
            /\ c_ret' = Ret("next", 0, "Ok", 0)
            /\ UNCHANGED t_pc
       ELSE /\ t_pc' = "done"
            /\ UNCHANGED <<received, c_ret>>
    /\ UNCHANGED <<shared, pvars, c_head, c_tail, c_pc, c_val, c_chunk,
                   pushed, popped, live, dvars, sent>>

\* The steps inside push and pop during the round trip.
RoundTripInside ==
    /\ t_pc \in {"push", "pop"}
    /\ PushWrite \/ PushStore \/ PopRead \/ PopStore

NextRoundTrip ==
    \/ t_pc = "free" /\ Next
    \/ RoundTripStart
    \/ \E v \in Values : RoundTripPick(v)
    \/ RoundTripPush
    \/ RoundTripPushed
    \/ RoundTripTurn
    \/ RoundTripPop
    \/ RoundTripPopped
    \/ RoundTripInside

\* A queue of elements of one byte or more, used in any way and then, from a
\* moment at which it is empty, for one round trip.
SpecRoundTrip == Init /\ [][NextRoundTrip]_vars

\* The same for a queue of elements of a zero-sized type, of a capacity
\* above usize::MAX / 2, used before with pushes and pops.
NextRoundTripUnit ==
    \/ /\ t_pc = "free"
       /\ \/ Push(Unit)
          \/ PushWrite
          \/ /\ Len(tail_mo) <= MaxHistoryUnit
             /\ Len(pushed) < MaxHistoryUnit
             /\ PushStore
          \/ Pop
          \/ PopRead
          \/ /\ Len(head_mo) <= MaxHistoryUnit
             /\ Len(popped) < MaxHistoryUnit
             /\ PopStore
    \/ RoundTripStart
    \/ RoundTripPick(Unit)
    \/ RoundTripPush
    \/ RoundTripPushed
    \/ RoundTripTurn
    \/ RoundTripPop
    \/ Len(popped) < MaxHistoryUnit /\ RoundTripPopped
    \/ /\ t_pc \in {"push", "pop"}
       /\ \/ PushWrite
          \/ PushStore
          \/ PopRead
          \/ Len(popped) < MaxHistoryUnit /\ PopStore

SpecRoundTripUnit == InitUnit /\ [][NextRoundTripUnit]_vars

\* The endpoints and the queue go out of scope.
DropStep ==
    \/ DropProducer
    \/ DropConsumer
    \/ RingBufferDropSlot
    \/ RingBufferDropEnd

NextDrop == ProducerStep \/ ConsumerStep \/ DropStep

\* A queue of elements of one byte or more, up to its deallocation.
SpecDrop == Init /\ [][NextDrop]_vars

\* Calls of commit with an argument above the length of the chunk, up to one
\* more than the capacity.
CommitPanicStep ==
    \/ \E k \in 1 .. capacity + 1 : WChunkCommitPanic(k)
    \/ \E k \in 1 .. capacity + 1 : RChunkCommitPanic(k)

NextCommit == ProducerStep \/ ConsumerStep \/ CommitPanicStep

\* A queue of elements of one byte or more whose chunks are committed with
\* any argument.
SpecCommit == Init /\ [][NextCommit]_vars

\* The buffers handed to write: byte strings of up to one byte more than the
\* capacity.
Bufs == UNION { [1 .. n -> Values] : n \in 0 .. capacity + 1 }

\* The Producer's thread of a queue of bytes used through write and push.
ProducerStepIo ==
    \/ \E buf \in Bufs : IoWrite(buf)
    \/ IoWriteRetry
    \/ IoWriteCopy
    \/ IoWriteCommit
    \/ \E v \in Values : Push(v)
    \/ PushWrite
    \/ PushStore

\* The Consumer's thread of a queue of bytes used through read and pop, with
\* buffers of up to one byte more than the capacity.
ConsumerStepIo ==
    \/ \E m \in 0 .. capacity + 1 : IoRead(m)
    \/ IoReadRetry
    \/ IoReadCopy
    \/ IoReadCommit
    \/ Pop
    \/ PopRead
    \/ PopStore

NextIo == ProducerStepIo \/ ConsumerStepIo

\* A queue of bytes.
SpecIo == Init /\ [][NextIo]_vars

\* A queue of bytes used through every operation of the endpoints, write and
\* read included.
NextAvail == ProducerStep \/ ConsumerStep \/ ProducerStepIo \/ ConsumerStepIo

SpecAvail == Init /\ [][NextAvail]_vars

\* Calls of write_chunk, whose chunks come filled with the default value,
\* and assignments to the slots of a chunk that is initialized.
WriteChunkStep ==
    \/ \E n \in 0 .. capacity + 1 : WriteChunk(n)
    \/ WChunkFill
    \/ \E i \in 0 .. capacity - 1 : \E v \in Values : WChunkSet(i, v)

NextFill == ProducerStep \/ ConsumerStep \/ WriteChunkStep

\* A queue of elements of one byte or more that are Copy + Default.
SpecFill == Init /\ [][NextFill]_vars

\* Iteration over the chunks and commit_iterated.
IterStep ==
    \/ WChunkNext
    \/ WChunkCommitIterated
    \/ RChunkNext
    \/ RChunkCommitIterated

NextIter == ProducerStep \/ ConsumerStep \/ IterStep

\* A queue of elements of one byte or more whose chunks are iterated.
SpecIter == Init /\ [][NextIter]_vars

\* The endpoints' threads in a queue of zero-sized elements: the producer
\* commits whole chunks of 3 slots, the consumer iterates chunks of 3 slots
\* and commits them with commit_iterated.
ProducerStepUnitIter ==
    \/ WriteChunkMaybeUninit(3)
    \/ WChunkWrite(Unit)
    \/ tail <= MaxPositionUnit
          /\ Len(tail_mo) <= MaxHistoryUnit
          /\ Len(pushed) + ChunkLen(p_chunk) <= MaxHistoryUnit
          /\ WChunkCommit(ChunkLen(p_chunk))

ConsumerStepUnitIter ==
    \/ ReadChunk(3)
    \/ RChunkNext
    \/ head <= MaxPositionUnit
          /\ Len(head_mo) <= MaxHistoryUnit
          /\ Len(popped) + c_chunk.iterated <= MaxHistoryUnit
          /\ RChunkCommitIterated

NextUnitIter == ProducerStepUnitIter \/ ConsumerStepUnitIter

\* A queue of elements of a zero-sized type, of a capacity above
\* usize::MAX / 2, whose chunks are iterated.
SpecUnitIter == InitUnit /\ [][NextUnitIter]_vars

\* The chunk sizes asked for in a queue of zero-sized elements.
WriteSizesUnit == {2, 3}
ReadSizesUnit == {2}

\* The Producer's thread in a queue of zero-sized elements; a chunk is
\* committed whole (commit_all).  A store that publishes is followed from a
\* tail of up to MaxPositionUnit and while no more than MaxHistoryUnit
\* values are published and not consumed.
ProducerStepUnit ==
    \/ Push(Unit)
    \/ PushWrite
    \/ tail <= MaxPositionUnit
          /\ Len(tail_mo) <= MaxHistoryUnit
          /\ Len(pushed) < MaxHistoryUnit
          /\ PushStore
    \/ IsFull
    \/ \E n \in WriteSizesUnit : WriteChunkMaybeUninit(n)
    \/ WChunkWrite(Unit)
    \/ tail <= MaxPositionUnit
          /\ Len(tail_mo) <= MaxHistoryUnit
          /\ Len(pushed) + ChunkLen(p_chunk) <= MaxHistoryUnit
          /\ WChunkCommit(ChunkLen(p_chunk))
    \/ WChunkDrop

\* The Consumer's thread in a queue of zero-sized elements; a chunk is
\* committed whole (commit_all).  A store that consumes is followed from a
\* head of up to MaxPositionUnit and while no more than MaxHistoryUnit
\* values are consumed that were never published.
ConsumerStepUnit ==
    \/ Pop
    \/ PopRead
    \/ head <= MaxPositionUnit
          /\ Len(head_mo) <= MaxHistoryUnit
          /\ Len(popped) < MaxHistoryUnit
          /\ PopStore
    \/ Peek
    \/ PeekRead
    \/ IsEmpty
    \/ \E n \in ReadSizesUnit : ReadChunk(n)
    \/ head <= MaxPositionUnit
          /\ Len(head_mo) <= MaxHistoryUnit
          /\ Len(popped) + ChunkLen(c_chunk) <= MaxHistoryUnit
          /\ RChunkCommit(ChunkLen(c_chunk))
    \/ RChunkDrop

NextUnit == ProducerStepUnit \/ ConsumerStepUnit

\* A queue of elements of a zero-sized type, of a capacity above usize::MAX / 2.
SpecUnit == InitUnit /\ [][NextUnit]_vars

\* The endpoints' threads in a queue of zero-sized elements that is filled:
\* pushes, a chunk of capacity slots committed whole, pops.  A store that
\* publishes is followed while no more than capacity values are published
\* and not consumed; a pop is followed while its load of the tail has no
\* more than MaxHistoryUnit stores to choose from.
ProducerStepUnitFull ==
    \/ Push(Unit)
    \/ PushWrite
    \/ Len(pushed) < capacity /\ PushStore
    \/ WriteChunkMaybeUninit(capacity)
    \/ WChunkWrite(Unit)
    \/ Len(pushed) + ChunkLen(p_chunk) <= capacity
          /\ WChunkCommit(ChunkLen(p_chunk))

ConsumerStepUnitFull ==
    \/ Len(tail_mo) <= MaxHistoryUnit /\ Pop
    \/ PopRead
    \/ Len(head_mo) <= MaxHistoryUnit
          /\ Len(popped) < MaxHistoryUnit
          /\ PopStore

NextUnitFull == ProducerStepUnitFull \/ ConsumerStepUnitFull

\* A queue of elements of a zero-sized type, of a capacity above
\* usize::MAX / 2, that is filled up.
SpecUnitFull == InitUnit /\ [][NextUnitFull]_vars

\* The endpoints' threads in a queue of zero-sized elements that is used and
\* then dropped.  A store that publishes or consumes, and a turn of the loop
\* of Drop::drop, are followed while no more than MaxHistoryUnit values are
\* left in either history.
ProducerStepUnitDrop ==
    \/ Push(Unit)
    \/ PushWrite
    \/ tail <= MaxPositionUnit
          /\ Len(tail_mo) <= MaxHistoryUnit
          /\ Len(pushed) < MaxHistoryUnit
          /\ PushStore
    \/ WriteChunkMaybeUninit(3)
    \/ WChunkWrite(Unit)
    \/ tail <= MaxPositionUnit
          /\ Len(tail_mo) <= MaxHistoryUnit
          /\ Len(pushed) + ChunkLen(p_chunk) <= MaxHistoryUnit
          /\ WChunkCommit(ChunkLen(p_chunk))
    \/ WChunkDrop
    \/ DropProducer

ConsumerStepUnitDrop ==
    \/ Pop
    \/ PopRead
    \/ head <= MaxPositionUnit
          /\ Len(head_mo) <= MaxHistoryUnit
          /\ Len(popped) < MaxHistoryUnit
          /\ PopStore
    \/ DropConsumer

RingBufferStepUnitDrop ==
    \/ Len(popped) < MaxHistoryUnit /\ RingBufferDropSlot
    \/ RingBufferDropEnd

NextUnitDrop ==
    ProducerStepUnitDrop \/ ConsumerStepUnitDrop \/ RingBufferStepUnitDrop

\* A queue of elements of a zero-sized type, of a capacity above
\* usize::MAX / 2, up to its deallocation.
SpecUnitDrop == InitUnit /\ [][NextUnitDrop]_vars

\* The endpoints' threads in a queue of zero-sized elements whose fill
\* level is asked for: chunks of 3 slots, committed whole.
ProducerStepUnitSlots ==
    \/ Push(Unit)
    \/ PushWrite
    \/ tail <= MaxPositionUnit
          /\ Len(tail_mo) <= MaxHistoryUnit
          /\ Len(pushed) < MaxHistoryUnit
          /\ PushStore
    \/ IsFull
    \/ ProducerSlots
    \/ WriteChunkMaybeUninit(3)
    \/ WChunkWrite(Unit)
    \/ tail <= MaxPositionUnit
          /\ Len(tail_mo) <= MaxHistoryUnit
          /\ Len(pushed) + ChunkLen(p_chunk) <= MaxHistoryUnit
          /\ WChunkCommit(ChunkLen(p_chunk))
    \/ WChunkDrop

ConsumerStepUnitSlots ==
    \/ IsEmpty
    \/ ConsumerSlots
    \/ ReadChunk(3)
    \/ head <= MaxPositionUnit
          /\ Len(head_mo) <= MaxHistoryUnit
          /\ Len(popped) + ChunkLen(c_chunk) <= MaxHistoryUnit
          /\ RChunkCommit(ChunkLen(c_chunk))
    \/ RChunkDrop

NextUnitSlots == ProducerStepUnitSlots \/ ConsumerStepUnitSlots

\* A queue of elements of a zero-sized type, of a capacity above
\* usize::MAX / 2, with calls of slots, is_full and is_empty.
SpecUnitSlots == InitUnit /\ [][NextUnitSlots]_vars

\* The endpoints' threads in a queue of zero-sized elements with chunk
\* requests of 3 slots and of one slot more than the capacity; a chunk is
\* committed whole, committed with one more than its length, or dropped.
ProducerStepUnitChunk ==
    \/ Push(Unit)
    \/ PushWrite
    \/ tail <= MaxPositionUnit
          /\ Len(tail_mo) <= MaxHistoryUnit
          /\ Len(pushed) < MaxHistoryUnit
          /\ PushStore
    \/ \E n \in {3, capacity + 1} : WriteChunkMaybeUninit(n)
    \/ WChunkWrite(Unit)
    \/ tail <= MaxPositionUnit
          /\ Len(tail_mo) <= MaxHistoryUnit
          /\ Len(pushed) + ChunkLen(p_chunk) <= MaxHistoryUnit
          /\ WChunkCommit(ChunkLen(p_chunk))
    \/ WChunkCommitPanic(ChunkLen(p_chunk) + 1)
    \/ WChunkDrop

ConsumerStepUnitChunk ==
    \/ \E n \in {3, capacity + 1} : ReadChunk(n)
    \/ head <= MaxPositionUnit
          /\ Len(head_mo) <= MaxHistoryUnit
          /\ Len(popped) + ChunkLen(c_chunk) <= MaxHistoryUnit
          /\ RChunkCommit(ChunkLen(c_chunk))
    \/ RChunkCommitPanic(ChunkLen(c_chunk) + 1)
    \/ RChunkDrop

NextUnitChunk == ProducerStepUnitChunk \/ ConsumerStepUnitChunk

\* A queue of elements of a zero-sized type, of a capacity above
\* usize::MAX / 2, used through chunks.
SpecUnitChunk == InitUnit /\ [][NextUnitChunk]_vars

\* ------------------------------------------------------------ derived views

\* debug_assert!(pos == 0 || pos < 2 * self.capacity), as the code computes
\* it: the product is a usize.
IsPosition(pos) == pos >= 0 /\ (pos = 0 \/ pos < usize(2 * capacity))

\* The number of values published and not yet consumed, while every value
\* consumed was one published.
Holds(n) == popped = << >> /\ Len(pushed) = n

\* The abstract queue: the slot contents at the positions head .. tail.
AbsQueue ==
    [ i \in 1 .. distance(head, tail) |->
        slots[collapse_position(increment(head, i - 1))] ]

\* The slots the Producer may write in the current state.
ProducerWrites ==
    IF p_pc = "push_write" THEN { collapse_position(p_tail) }
    ELSE IF p_pc = "wchunk" THEN ChunkSlots(p_chunk)
    ELSE {}

\* The slots the Consumer may read in the current state.
ConsumerReads ==
    IF c_pc \in {"pop_read", "peek_read"} THEN { collapse_position(c_head) }
    ELSE IF c_pc = "rchunk" THEN ChunkSlots(c_chunk)
    ELSE {}

\* The values a load of an index can return.
Loads(mo) == { mo[i] : i \in DOMAIN mo }

\* The slots a call of the Consumer made now would hand out, whatever its
\* load of the tail returns: the slot of a pop or peek, the slots of a read
\* chunk of any size.
ConsumerCanRead ==
    UNION { (IF next_head(t).some THEN { collapse_position(c_head) } ELSE {})
            \cup UNION { ChunkSlots(read_chunk(n, t).chunk) :
                           n \in { m \in 1 .. capacity : read_chunk(m, t).ok } }
            : t \in Loads(tail_mo) }

\* The slots a call of the Producer made now would hand out, whatever its
\* load of the head returns: the slot of a push, the slots of a write chunk
\* of any size.
ProducerCanWrite ==
    UNION { (IF next_tail(h).some THEN { collapse_position(p_tail) } ELSE {})
            \cup UNION { ChunkSlots(write_chunk_maybe_uninit(n, h).chunk) :
                           n \in { m \in 1 .. capacity :
                                     write_chunk_maybe_uninit(m, h).ok } }
            : h \in Loads(head_mo) }

\* The step stores to the shared tail / to the shared head.
TailStore == PushStore \/ \E k \in 0 .. capacity : WChunkCommit(k)
HeadStore == PopStore \/ \E k \in 0 .. capacity : RChunkCommit(k)

\* ------------------------------------------------------------------ claims

\* C1: in every interleaving of the Producer and the Consumer the values
\* consumed (returned by pop or committed as read) are a prefix of the values
\* published (by push or a write-chunk commit): after cancelling the common
\* prefix of the two histories nothing consumed is left over.
C1_PopsArePrefixOfPushes == popped = << >>

\* C2: the implementation refines an atomic bounded FIFO queue whose content
\* is the slot contents at head .. tail: a store to tail appends exactly the
\* values being published and keeps the queue within capacity, a store to
\* head removes exactly the values being consumed from the front, every other
\* step leaves the abstract queue unchanged, and the abstract queue is the
\* sequence of values published and not yet consumed.
C2_RefinesAtomicQueue ==
    /\ [](AbsQueue = pushed)
    /\ [][ /\ PushStore =>
                 /\ AbsQueue' = Append(AbsQueue, p_ret.arg)
                 /\ Len(AbsQueue') <= capacity
           /\ \A k \in 0 .. capacity : WChunkCommit(k) =>
                 /\ AbsQueue' = AbsQueue \o ChunkValues(p_chunk, k)
                 /\ Len(AbsQueue') <= capacity
           /\ PopStore => AbsQueue = << c_val >> \o AbsQueue'
           /\ \A k \in 0 .. capacity : RChunkCommit(k) =>
                 AbsQueue = ChunkValues(c_chunk, k) \o AbsQueue'
           /\ \/ UNCHANGED <<head, tail, slots>>
              \/ TailStore
              \/ HeadStore
              \/ AbsQueue' = AbsQueue ]_vars

\* C3: the Producer writes only slots that hold no value published and not
\* yet consumed, the Consumer reads only slots that hold such a value, a pop
\* or peek reads the oldest published value, and the two never access the
\* same slot.
C3_NoSlotConflict ==
    /\ ProducerWrites \cap live = {}
    /\ ConsumerReads \subseteq live
    /\ \A s \in ConsumerReads : slots[s] \in Values
    /\ c_pc \in {"pop_read", "peek_read"} =>
          pushed # << >> /\ slots[collapse_position(c_head)] = Head(pushed)
    /\ ProducerWrites \cap ConsumerReads = {}

\* C4: distance(head, tail) never exceeds capacity and is the number of values
\* published and not yet consumed.
C4_DistanceIsFillCount ==
    /\ distance(head, tail) <= capacity
    /\ distance(head, tail) = Len(pushed) - Len(popped)

\* C5: the shared indices and both endpoints' copies lie in
\* 0 .. 2*capacity - 1 (all are 0 when capacity is 0) and satisfy the position
\* debug assertion of collapse_position, slot_ptr, increment and distance;
\* the position an increment1 call is about to be made with satisfies the
\* assertions of increment1, whose bound 2 * capacity is a usize; a chunk is
\* never longer than the capacity (the assertion of increment on n).
C5_PositionsInRange ==
    /\ \A pos \in {head, tail, p_head, p_tail, c_head, c_tail} :
          /\ pos = 0 \/ pos < 2 * capacity
          /\ IsPosition(pos)
    /\ capacity = 0 =>
          \A pos \in {head, tail, p_head, p_tail, c_head, c_tail} : pos = 0
    /\ p_pc \in {"push_write", "push_store"} =>
          capacity # 0 /\ 2 * capacity < Modulus /\ p_tail < 2 * capacity
    /\ c_pc \in {"pop_read", "pop_store"} =>
          capacity # 0 /\ 2 * capacity < Modulus /\ c_head < 2 * capacity
    /\ p_pc = "wchunk" => ChunkLen(p_chunk) <= capacity
    /\ c_pc = "rchunk" => ChunkLen(c_chunk) <= capacity

\* A call of push or is_full reports that the queue is full; a call of pop,
\* peek or is_empty reports that it is empty.
ReportsFull ==
    \/ p_ret'.res = "Full" /\ \E v \in Values : Push(v)
    \/ p_ret'.res = "true" /\ IsFull
ReportsEmpty ==
    \/ c_ret'.res = "Empty" /\ (Pop \/ Peek)
    \/ c_ret'.res = "true" /\ IsEmpty

\* C6: a push(v) called while the queue holds capacity values ends in that
\* step with Full(v), v being the value offered, and changes neither shared
\* index nor any slot.
C6_PushOnFullReturnsValue ==
    [][ \A v \in Values :
          (Holds(capacity) /\ Push(v)) =>
              /\ p_ret' = Ret("push", 0, "Full", v)
              /\ p_pc' = "idle"
              /\ UNCHANGED <<head, tail, slots>> ]_vars

\* C7: a pop or a peek called while the queue holds no value ends in that
\* step with Empty and changes neither shared index nor any slot.
C7_PopPeekOnEmptyReturnEmpty ==
    [][ (Holds(0) /\ (Pop \/ Peek)) =>
              /\ c_ret'.res = "Empty"
              /\ c_ret'.op \in {"pop", "peek"}
              /\ c_pc' = "idle"
              /\ UNCHANGED <<head, tail, slots>> ]_vars

\* C8: Full is reported only by a call that loaded the shared head in that
\* call and found distance(head, tail) = capacity with the value loaded; Empty
\* only by a call that loaded the shared tail in that call and found the
\* value loaded equal to head.  So a push that starts while the queue holds
\* fewer than capacity values (as after a completed pop on a full queue) is
\* admitted, and a pop that starts while the queue holds a value (as after a
\* completed push on an empty queue) is admitted, whatever the cached indices
\* are and whichever store the load returns.
C8_CacheNeverRefutes ==
    /\ [][ /\ ReportsFull =>
                 \E i \in DOMAIN head_mo :
                    /\ head_mo' = Acquire(head_mo, i)
                    /\ p_head' = head_mo[i]
                    /\ distance(head_mo[i], p_tail) = capacity
           /\ ReportsEmpty =>
                 \E i \in DOMAIN tail_mo :
                    /\ tail_mo' = Acquire(tail_mo, i)
                    /\ c_tail' = tail_mo[i]
                    /\ c_head = tail_mo[i] ]_vars
    /\ []((p_pc = "idle" /\ popped = << >> /\ Len(pushed) < capacity)
              => \A h \in Loads(head_mo) : next_tail(h).some)
    /\ []((c_pc = "idle" /\ popped = << >> /\ pushed # << >>)
              => \A t \in Loads(tail_mo) : next_head(t).some)

\* C9: the store of a write-chunk commit of k slots moves the shared tail
\* forward by exactly k positions and the k committed values become the
\* youngest k values of the queue; the store of a read-chunk commit of k slots
\* moves the shared head forward by exactly k positions and frees k slots.
\* Whatever has been published can be requested by an idle Consumer at once,
\* whichever store its load of the tail returns, and the chunk handed out
\* holds the oldest values in order; whatever is free can be requested by an
\* idle Producer at once, whichever store its load of the head returns, and
\* no slot of the chunk handed out holds a value of the queue.
C9_CommitAdvancesByK ==
    /\ [][ /\ \A k \in 0 .. capacity : WChunkCommit(k) =>
                 LET n == Len(AbsQueue')
                 IN  /\ distance(tail, tail') = k
                     /\ head' = head
                     /\ n >= k
                     /\ SubSeq(AbsQueue', n - k + 1, n)
                           = ChunkValues(p_chunk, k)
           /\ \A k \in 0 .. capacity : RChunkCommit(k) =>
                 /\ distance(head, head') = k
                 /\ tail' = tail
                 /\ capacity - distance(head', tail')
                       = capacity - distance(head, tail) + k ]_vars
    /\ []((c_pc = "idle" /\ popped = << >>) =>
              \A n \in 0 .. Len(pushed), t \in Loads(tail_mo) :
                  /\ read_chunk(n, t).ok
                  /\ ChunkValues(read_chunk(n, t).chunk, n)
                        = SubSeq(pushed, 1, n))
    /\ []((p_pc = "idle" /\ popped = << >>) =>
              \A n \in 0 .. capacity - Len(pushed), h \in Loads(head_mo) :
                  /\ write_chunk_maybe_uninit(n, h).ok
                  /\ ChunkSlots(write_chunk_maybe_uninit(n, h).chunk)
                        \cap live = {})

\* C10: a commit publishes its batch with one store.  While a write chunk is
\* alive the shared tail is the tail the chunk was taken at, and no call the
\* Consumer could make hands out one of its slots, nor is the Consumer reading
\* one; the step of commit(k) stores that tail advanced by k and ends the
\* commit.  The same holds of a read chunk, the shared head and the calls of
\* the Producer.  A step changes the shared tail or head only as one such
\* store (or the store of a push or a pop).
C10_CommitIsAllOrNothing ==
    /\ [](p_pc = "wchunk" =>
              /\ tail = p_tail
              /\ ChunkSlots(p_chunk) \cap ConsumerCanRead = {}
              /\ ChunkSlots(p_chunk) \cap ConsumerReads = {})
    /\ [](c_pc = "rchunk" =>
              /\ head = c_head
              /\ ChunkSlots(c_chunk) \cap ProducerCanWrite = {}
              /\ ChunkSlots(c_chunk) \cap ProducerWrites = {})
    /\ [][ /\ \A k \in 0 .. capacity : WChunkCommit(k) =>
                 tail' = increment(tail, k) /\ p_pc' = "idle"
           /\ \A k \in 0 .. capacity : RChunkCommit(k) =>
                 head' = increment(head, k) /\ c_pc' = "idle"
           /\ tail' # tail =>
                 \/ PushStore /\ tail' = increment1(tail)
                 \/ \E k \in 0 .. capacity :
                       WChunkCommit(k) /\ tail' = increment(tail, k)
           /\ head' # head =>
                 \/ PopStore /\ head' = increment1(head)
                 \/ \E k \in 0 .. capacity :
                       RChunkCommit(k) /\ head' = increment(head, k) ]_vars

\* C11: requesting a read chunk or a write chunk of any size, writing into
\* the slots of the write chunk, and dropping the chunk without a commit
\* change neither shared index nor the values readable by the Consumer; and
\* once the chunk is dropped a request of the same size succeeds and hands
\* out the same slots again, whatever a load of the peer's index returns.
C11_UncommittedChunkIsNoOp ==
    [][ /\ \/ \E n \in 0 .. capacity + 1 : ReadChunk(n)
           \/ RChunkDrop
           \/ \E n \in 0 .. capacity + 1 : WriteChunkMaybeUninit(n)
           \/ \E v \in Values : WChunkWrite(v)
           \/ WChunkDrop
           => /\ UNCHANGED <<head, tail>>
              /\ AbsQueue' = AbsQueue
        /\ \A n \in 0 .. capacity :
              (RChunkDrop /\ ChunkLen(c_chunk) = n) =>
                  \A t \in Loads(tail_mo') :
                     /\ read_chunk(n, t)'.ok
                     /\ ChunkSlots(read_chunk(n, t)'.chunk)
                           = ChunkSlots(c_chunk)
                     /\ ChunkValues(read_chunk(n, t).chunk, n)'
                           = ChunkValues(c_chunk, n)
        /\ \A n \in 0 .. capacity :
              (WChunkDrop /\ ChunkLen(p_chunk) = n) =>
                  \A h \in Loads(head_mo') :
                     /\ write_chunk_maybe_uninit(n, h)'.ok
                     /\ ChunkSlots(write_chunk_maybe_uninit(n, h)'.chunk)
                           = ChunkSlots(p_chunk) ]_vars

\* Both endpoints have dropped a chunk without a commit while the queue holds
\* values and its indices have moved.
C11_Witness ==
    /\ p_ret.op = "drop_chunk"
    /\ c_ret.op = "drop_chunk"
    /\ pushed # << >>
    /\ head # 0
    /\ p_chunk = NoChunk
    /\ c_chunk = NoChunk

\* C12: the value Producer::slots() would return in the current state plus
\* the value Consumer::slots() would return in it is at most capacity, and
\* exactly capacity when no operation is in progress on either endpoint,
\* whichever stores the two loads return.
\* The values the two endpoints were last given by slots(), neither endpoint
\* having made another call since its own, sum to at most capacity as well.
C12_SlotsSumToCapacity ==
    /\ \A h \in Loads(head_mo), t \in Loads(tail_mo) :
          producer_slots(h).val + consumer_slots(t).val <= capacity
    /\ (p_pc \in {"idle", "wchunk"} /\ c_pc \in {"idle", "rchunk"}) =>
          \A h \in Loads(head_mo), t \in Loads(tail_mo) :
             producer_slots(h).val + consumer_slots(t).val = capacity
    /\ (p_ret.op = "slots" /\ c_ret.op = "slots") =>
          p_ret.val + c_ret.val <= capacity

\* The number of steps an endpoint has still to take in its current
\* operation.
StepsLeft(pc) ==
    IF pc \in {"push_write", "pop_read"} THEN 2
    ELSE IF pc \in {"push_store", "pop_store", "peek_read"} THEN 1
    ELSE 0

\* C13: every operation is wait-free.  An endpoint inside an operation can
\* always take its next step, whatever state the peer is in; each of its
\* steps brings it one step closer to the return, and an operation takes at
\* most three steps; every call and every commit can be made at once when
\* the endpoint is between operations.  So an endpoint whose thread keeps
\* running returns from every operation, even if the peer never takes
\* another step.
C13_WaitFree ==
    /\ [](StepsLeft(p_pc) > 0 => ENABLED (PushWrite \/ PushStore))
    /\ [](StepsLeft(c_pc) > 0 => ENABLED (PopRead \/ PopStore \/ PeekRead))
    /\ [](p_pc = "idle" =>
              /\ \A v \in Values : ENABLED Push(v)
              /\ ENABLED IsFull
              /\ ENABLED ProducerSlots
              /\ \A n \in 0 .. capacity + 1 :
                    ENABLED WriteChunkMaybeUninit(n))
    /\ [](p_pc = "wchunk" =>
              \A k \in 0 .. p_chunk.written : ENABLED WChunkCommit(k))
    /\ [](c_pc = "idle" =>
              /\ ENABLED Pop
              /\ ENABLED Peek
              /\ ENABLED IsEmpty
              /\ ENABLED ConsumerSlots
              /\ \A n \in 0 .. capacity + 1 : ENABLED ReadChunk(n))
    /\ [](c_pc = "rchunk" =>
              \A k \in 0 .. ChunkLen(c_chunk) : ENABLED RChunkCommit(k))
    /\ [][ /\ (pvars' # pvars /\ StepsLeft(p_pc) > 0) =>
                  StepsLeft(p_pc') = StepsLeft(p_pc) - 1
           /\ (pvars' # pvars /\ StepsLeft(p_pc) = 0) =>
                  StepsLeft(p_pc') \in {0, 2}
           /\ (cvars' # cvars /\ StepsLeft(c_pc) > 0) =>
                  StepsLeft(c_pc') = StepsLeft(c_pc) - 1
           /\ (cvars' # cvars /\ StepsLeft(c_pc) = 0) =>
                  StepsLeft(c_pc') \in {0, 1, 2} ]_vars
    /\ WF_vars(ProducerStep) =>
          [](StepsLeft(p_pc) > 0 => <>(StepsLeft(p_pc) = 0))
    /\ WF_vars(ConsumerStep) =>
          [](StepsLeft(c_pc) > 0 => <>(StepsLeft(c_pc) = 0))

\* The Producer is inside a push on a queue the Consumer has been popping
\* from, and the Consumer is inside a pop.
C13_Witness ==
    /\ p_pc = "push_store"
    /\ c_pc = "pop_store"
    /\ head # 0

\* C14: every value that entered the queue leaves it exactly once: moved out
\* by pop, or destroyed by a read-chunk commit or by the teardown.  Drop::drop
\* starts with the values published and not consumed at head .. tail, each
\* turn of its loop destroys the oldest of them, in its slot, and when the
\* queue is gone nothing published is left undestroyed and nothing was
\* destroyed or moved out that was not published before: the number of
\* values destroyed is the number pushed less the number popped.
C14_EveryValueDroppedOnce ==
    /\ [](d_pc = "drop" =>
              /\ popped = << >>
              /\ distance(d_head, tail) = Len(pushed)
              /\ Cardinality(live) = Len(pushed))
    /\ [][ RingBufferDropSlot =>
              /\ collapse_position(d_head) \in live
              /\ pushed # << >>
              /\ slots[collapse_position(d_head)] = Head(pushed)
              /\ pushed' = Tail(pushed) ]_vars
    /\ [][ \A k \in 0 .. capacity : RChunkCommit(k) =>
              /\ { ChunkSlot(c_chunk, i) : i \in 0 .. k - 1 } \subseteq live
              /\ k <= Len(pushed)
              /\ ChunkValues(c_chunk, k) = SubSeq(pushed, 1, k) ]_vars
    /\ [][ PopStore => collapse_position(c_head) \in live
                       /\ pushed # << >>
                       /\ c_val = Head(pushed) ]_vars
    /\ [](d_pc = "dropped" =>
              pushed = << >> /\ popped = << >> /\ live = {})

\* C15: with capacity 1 or more, the producer thread that retries push on
\* Full and the consumer thread that retries pop on Empty both finish: all
\* NumValues values are sent, and the consumer receives exactly
\* 0, 1, ..., NumValues - 1, having at no time received anything but a
\* prefix of that sequence.
C15_RetryThreadsFinish ==
    /\ [](/\ Len(received) <= NumValues
          /\ received = [ i \in 1 .. Len(received) |-> i - 1 ]
          /\ Len(received) <= Len(sent) + 1)
    /\ <>[](Len(sent) = NumValues /\ p_pc = "idle")
    /\ <>[](received = [ i \in 1 .. NumValues |-> i - 1 ] /\ c_pc = "idle")

\* Both threads have finished on a queue of capacity 1.
C15_Witness ==
    /\ capacity = 1
    /\ Len(sent) = NumValues
    /\ received = [ i \in 1 .. NumValues |-> i - 1 ]
    /\ head = tail

\* C16: in a queue of capacity 0 every push returns Full with its value,
\* every pop and peek returns Empty, is_full and is_empty answer true, every
\* index stays 0, and no endpoint ever gets past its full or empty check: the
\* slot accesses and increment1 are never reached.
C16_CapacityZero ==
    /\ [](capacity = 0 =>
              /\ head = 0 /\ tail = 0
              /\ p_head = 0 /\ p_tail = 0 /\ c_head = 0 /\ c_tail = 0
              /\ p_pc \in {"idle", "wchunk"}
              /\ c_pc \in {"idle", "rchunk"}
              /\ ~ENABLED PushStore
              /\ ~ENABLED PopStore
              /\ pushed = << >> /\ popped = << >>)
    /\ [][ capacity = 0 =>
              /\ \A v \in Values :
                    Push(v) => p_ret' = Ret("push", 0, "Full", v)
              /\ IsFull => p_ret'.res = "true"
              /\ Pop => c_ret' = Ret("pop", 0, "Empty", 0)
              /\ Peek => c_ret' = Ret("peek", 0, "Empty", 0)
              /\ IsEmpty => c_ret'.res = "true" ]_vars

\* On a queue of capacity 0 a push has returned Full and a peek Empty.
C16_Witness ==
    /\ capacity = 0
    /\ p_ret.op = "push"
    /\ p_ret.res = "Full"
    /\ c_ret.op = "peek"
    /\ c_ret.res = "Empty"

\* C17: round trip.  From an empty queue, at whatever positions its indices
\* and their cached copies stand, no push of the sequence xs (of a length up
\* to the capacity) returns Full; the pops that follow return the elements
\* of xs in order; and the pop that returns Empty is the one made after all
\* of xs has been received.
C17_RoundTrip ==
    /\ t_pc # "free" =>
          /\ p_ret.res # "Full"
          /\ Len(received) <= Len(sent)
          /\ received = SubSeq(sent, 1, Len(received))
    /\ t_pc = "done" => received = sent

\* C18: peek returns the oldest value and removes nothing.  Neither step of
\* peek changes a shared index, a slot, the Consumer's head or what the
\* queue holds; the value peek returns is the oldest value published and not
\* consumed, read from a slot that holds it; as long as nothing is consumed
\* that value stays the oldest and stays in its slot whatever the Producer
\* does, so that the answer of a peek remains true until the Consumer's next
\* call and a repeated peek gives it again; and a pop returns that value.
C18_PeekIsIdempotent ==
    /\ [][ (Peek \/ PeekRead) =>
              /\ UNCHANGED <<head, tail, slots, c_head>>
              /\ UNCHANGED <<pushed, popped, live>> ]_vars
    /\ [][ PeekRead =>
              /\ pushed # << >>
              /\ collapse_position(c_head) \in live
              /\ c_ret'.res = "Ok"
              /\ c_ret'.val = Head(pushed) ]_vars
    /\ [][ (pushed # << >> /\ head' = head) =>
              /\ pushed' # << >>
              /\ Head(pushed') = Head(pushed)
              /\ c_head' = c_head
              /\ slots'[collapse_position(c_head)]
                    = slots[collapse_position(c_head)] ]_vars
    /\ []((c_ret.op = "peek" /\ c_ret.res = "Ok") =>
              /\ pushed # << >>
              /\ c_ret.val = Head(pushed)
              /\ c_ret.val = slots[collapse_position(c_head)]
              /\ \A t \in Loads(tail_mo) : next_head(t).some)
    /\ [][ PopStore => pushed # << >> /\ c_ret'.val = Head(pushed) ]_vars

\* C19: is_empty() and Consumer::slots() agree, and so do is_full() and
\* Producer::slots(), when called one after the other, in either order, with
\* no step of the peer in between: is_empty answers true exactly when slots
\* would return 0 in the state is_empty leaves (and in the state it was
\* called in), slots returns 0 exactly when is_empty would answer true next.
C19_SlotsAgreeWithIsEmptyIsFull ==
    [][ /\ IsEmpty =>
              /\ \A t \in Loads(tail_mo') :
                    (c_ret'.res = "true") <=> (consumer_slots(t)'.val = 0)
              /\ \A t \in Loads(tail_mo) :
                    (c_ret'.res = "true") <=> (consumer_slots(t).val = 0)
        /\ ConsumerSlots =>
              /\ c_ret'.res = "Ok"
              /\ \A t \in Loads(tail_mo') :
                    (c_ret'.val = 0) <=> ~next_head(t)'.some
        /\ IsFull =>
              /\ \A h \in Loads(head_mo') :
                    (p_ret'.res = "true") <=> (producer_slots(h)'.val = 0)
              /\ \A h \in Loads(head_mo) :
                    (p_ret'.res = "true") <=> (producer_slots(h).val = 0)
        /\ ProducerSlots =>
              /\ p_ret'.res = "Ok"
              /\ \A h \in Loads(head_mo') :
                    (p_ret'.val = 0) <=> ~next_tail(h)'.some ]_vars

\* C20: a chunk request for n slots is refused only when fewer than n slots
\* are available in the state of the call, in which the peer's index is
\* loaded: filled slots (the values published and not consumed) for
\* read_chunk, free slots for write_chunk_maybe_uninit.  The refusal is
\* TooFewSlots(m) with m that number of slots, m < n; the refused call leaves
\* both shared indices and every slot as they are and no chunk behind, and
\* the endpoint's cached copy is the index loaded.
C20_TooFewSlotsIsExact ==
    [][ \A n \in 0 .. capacity + 1 :
          /\ (ReadChunk(n) /\ c_ret'.res = "TooFewSlots") =>
                /\ c_ret'.val = Len(pushed) - Len(popped)
                /\ c_ret'.val = distance(c_head, tail)
                /\ c_ret'.val < n
                /\ c_tail' = tail
                /\ c_chunk' = NoChunk /\ c_pc' = "idle"
                /\ UNCHANGED <<head, tail, slots>>
          /\ (ReadChunk(n) /\ n <= Len(pushed) - Len(popped)) =>
                c_ret'.res = "Chunk"
          /\ (WriteChunkMaybeUninit(n) /\ p_ret'.res = "TooFewSlots") =>
                /\ p_ret'.val = capacity - (Len(pushed) - Len(popped))
                /\ p_ret'.val = capacity - distance(head, p_tail)
                /\ p_ret'.val < n
                /\ p_head' = head
                /\ p_chunk' = NoChunk /\ p_pc' = "idle"
                /\ UNCHANGED <<head, tail, slots>>
          /\ (WriteChunkMaybeUninit(n)
                 /\ n <= capacity - (Len(pushed) - Len(popped))) =>
                p_ret'.res = "Chunk" ]_vars

\* The chunk ch handed out for n slots at the position pos: its first slice
\* starts at the slot of pos and is min(n, capacity - slot) long, its second
\* slice starts at slot 0 and holds the rest; the i-th slot of the chunk is
\* the i-th slot after the slot of pos around the ring, so the chunk is made
\* of n different slots of the storage.
SlicesFollow(ch, pos, n) ==
    LET s == collapse_position(pos)
    IN  /\ ch.first = s
        /\ ch.first_len = Min(n, capacity - s)
        /\ ch.second_len = n - ch.first_len
        /\ ch.second_len >= 0
        /\ ChunkLen(ch) = n
        /\ \A i \in 0 .. n - 1 :
              /\ ChunkSlot(ch, i) = (s + i) % capacity
              /\ i < ch.first_len => ChunkSlot(ch, i) = s + i
              /\ i >= ch.first_len => ChunkSlot(ch, i) = i - ch.first_len
        /\ ChunkSlots(ch) \subseteq 0 .. capacity - 1
        /\ Cardinality(ChunkSlots(ch)) = n
        /\ ch.first_len = 0 => n = 0
        /\ ch.first_len = n => ch.second_len = 0

\* C21: every chunk handed out by read_chunk(n) at the Consumer's head, and
\* by write_chunk_maybe_uninit(n) at the Producer's tail, is made of the two
\* slices described: the first from the slot of the index up to the end of
\* the storage at most, the second from slot 0, together the n slots that
\* follow the index in ring order; the first is empty only when n = 0 and
\* the second is empty whenever the first holds all n slots.
C21_SlicesCoverRingOrder ==
    [][ \A n \in 0 .. capacity + 1 :
          /\ (ReadChunk(n) /\ c_ret'.res = "Chunk") =>
                SlicesFollow(c_chunk', c_head, n)
          /\ (WriteChunkMaybeUninit(n) /\ p_ret'.res = "Chunk") =>
                SlicesFollow(p_chunk', p_tail, n) ]_vars

\* The kinds of result a call of the Producer, of the Consumer, ends with
\* when it returns ("pending": it has not returned yet).
ProducerResults ==
    {"Ok", "pending", "Full", "TooFewSlots", "Chunk", "true", "false"}
ConsumerResults ==
    {"Ok", "pending", "Empty", "TooFewSlots", "Chunk", "true", "false"}

\* Every operation can be called with every argument value whenever its
\* endpoint, or its chunk, is there to be called (an argument of the unsafe
\* commit is one that meets its safety contract or exceeds the chunk), and
\* an endpoint inside an operation can take its next step.
EveryCallIsAnswered ==
    /\ p_pc = "idle" =>
          /\ \A v \in Values : ENABLED Push(v)
          /\ ENABLED IsFull
          /\ ENABLED ProducerSlots
          /\ \A n \in 0 .. capacity + 1 : ENABLED WriteChunkMaybeUninit(n)
    /\ p_pc = "wchunk" =>
          /\ \A k \in 0 .. capacity + 1 :
                (k <= p_chunk.written \/ k > ChunkLen(p_chunk)) =>
                    ENABLED (WChunkCommit(k) \/ WChunkCommitPanic(k))
          /\ ENABLED WChunkDrop
    /\ p_pc \in {"push_write", "push_store"} =>
          ENABLED (PushWrite \/ PushStore)
    /\ c_pc = "idle" =>
          /\ ENABLED Pop
          /\ ENABLED Peek
          /\ ENABLED IsEmpty
          /\ ENABLED ConsumerSlots
          /\ \A n \in 0 .. capacity + 1 : ENABLED ReadChunk(n)
    /\ c_pc = "rchunk" =>
          /\ \A k \in 0 .. capacity + 1 :
                ENABLED (RChunkCommit(k) \/ RChunkCommitPanic(k))
          /\ ENABLED RChunkDrop
    /\ c_pc \in {"pop_read", "pop_store", "peek_read"} =>
          ENABLED (PopRead \/ PopStore \/ PeekRead)

\* C22: all operations are total and non-blocking, each returns a result or
\* one of the error values Full, Empty, TooFewSlots, and none panics.
C22_NoOperationPanics ==
    /\ EveryCallIsAnswered
    /\ p_ret.res \in ProducerResults
    /\ c_ret.res \in ConsumerResults

\* C23: commit(n) with n above the number of slots of the chunk panics
\* whatever the chunk and never commits; the panic comes before any slot is
\* dropped and before any index is stored: the shared indices, the
\* endpoint's own copies, the slots and the values the queue holds are what
\* they were before the call.
C23_CommitBeyondChunkChangesNothing ==
    /\ [](p_pc = "wchunk" =>
              \A k \in ChunkLen(p_chunk) + 1 .. capacity + 1 :
                  ENABLED WChunkCommitPanic(k) /\ ~ENABLED WChunkCommit(k))
    /\ [](c_pc = "rchunk" =>
              \A k \in ChunkLen(c_chunk) + 1 .. capacity + 1 :
                  ENABLED RChunkCommitPanic(k) /\ ~ENABLED RChunkCommit(k))
    /\ [][ \A k \in 1 .. capacity + 1 :
             /\ WChunkCommitPanic(k) =>
                   /\ k > ChunkLen(p_chunk)
                   /\ p_ret'.res = "panic"
                   /\ UNCHANGED <<head, tail, slots, p_head, p_tail>>
                   /\ UNCHANGED <<pushed, popped, live>>
                   /\ AbsQueue' = AbsQueue
             /\ RChunkCommitPanic(k) =>
                   /\ k > ChunkLen(c_chunk)
                   /\ c_ret'.res = "panic"
                   /\ UNCHANGED <<head, tail, slots, c_head, c_tail>>
                   /\ UNCHANGED <<pushed, popped, live>>
                   /\ AbsQueue' = AbsQueue ]_vars

\* A commit beyond a read chunk over the values of a full queue has
\* panicked, and the values are still there.
C23_Witness ==
    /\ c_ret.op = "commit"
    /\ c_ret.res = "panic"
    /\ capacity > 0
    /\ Len(pushed) = capacity
    /\ head # 0

\* The number of values the queue holds, every value consumed so far having
\* been one published.
Filled == Len(pushed) - Len(popped)

\* C24: the byte adapters.  write(buf) with a non-empty buf returns
\* WouldBlock, changing nothing, when no slot is free in the state of the
\* call; otherwise it settles on min(len(buf), free slots) bytes, its retry
\* with the reduced count is granted, it appends exactly that prefix of buf
\* to the queue and returns its length.  read(buf) with a non-empty buf
\* returns WouldBlock, changing nothing, when the queue is empty in the state
\* of the call; otherwise it settles on min(len(buf), filled slots) bytes,
\* copies out exactly that many of the oldest bytes in order, removes them
\* and returns their number.
C24_ByteAdapters ==
    /\ [][ \A buf \in Bufs : (Len(buf) > 0 /\ IoWrite(buf)) =>
              IF capacity - Filled = 0
              THEN /\ p_ret' = Ret("write", << >>, "WouldBlock", 0)
                   /\ p_pc' = "idle"
                   /\ p_chunk' = NoChunk
                   /\ UNCHANGED <<head, tail, slots, p_tail>>
              ELSE /\ p_ret'.res = "pending"
                   /\ p_ret'.arg = buf
                   /\ p_ret'.val = Min(Len(buf), capacity - Filled) ]_vars
    /\ [][ IoWriteRetry =>
              /\ p_pc' = "io_copy"
              /\ ChunkLen(p_chunk') = p_ret.val
              /\ p_ret' = p_ret ]_vars
    /\ [](p_pc = "io_copy" => ChunkLen(p_chunk) = p_ret.val)
    /\ [][ IoWriteCommit =>
              /\ p_ret' = Ret("write", << >>, "Ok", p_ret.val)
              /\ popped = << >>
              /\ pushed' = pushed \o SubSeq(p_ret.arg, 1, p_ret.val)
              /\ AbsQueue' = AbsQueue \o SubSeq(p_ret.arg, 1, p_ret.val)
              /\ head' = head ]_vars
    /\ [][ \A m \in 1 .. capacity + 1 : IoRead(m) =>
              IF Filled = 0
              THEN /\ c_ret' = Ret("read", 0, "WouldBlock", << >>)
                   /\ c_pc' = "idle"
                   /\ c_chunk' = NoChunk
                   /\ UNCHANGED <<head, tail, slots, c_head>>
              ELSE /\ c_ret'.res = "pending"
                   /\ c_ret'.arg = Min(m, Filled) ]_vars
    /\ [][ IoReadRetry =>
              /\ c_pc' = "io_copy"
              /\ ChunkLen(c_chunk') = c_ret.arg
              /\ c_ret' = c_ret ]_vars
    /\ [](c_pc = "io_copy" => ChunkLen(c_chunk) = c_ret.arg)
    /\ [][ IoReadCommit =>
              /\ c_ret'.res = "Ok"
              /\ Len(c_ret'.val) = c_ret.arg
              /\ Len(pushed) >= c_ret.arg
              /\ c_ret'.val = SubSeq(pushed, 1, c_ret.arg)
              /\ pushed' = SubSeq(pushed, c_ret.arg + 1, Len(pushed))
              /\ popped' = << >>
              /\ AbsQueue = c_ret'.val \o AbsQueue'
              /\ tail' = tail ]_vars

\* The free slots the Producer computes from the head it holds, cached or
\* just loaded, and the filled slots the Consumer computes from the tail it
\* holds.
ObservedFree == capacity - distance(p_head, p_tail)
ObservedFilled == distance(c_head, c_tail)

\* C24 as amended: the byte adapters count the slots the call observes.
\* write(buf) with a non-empty buf observes n free slots with the head it
\* has cached or loads, n being at most the free slots in the state of the
\* call and exactly that number when the head it holds is the latest store;
\* it returns WouldBlock, changing nothing, when n = 0 (as it is when no slot
\* is free); otherwise it settles on min(len(buf), n) bytes, its retry with
\* the reduced count is granted, it appends exactly that prefix of buf to
\* the queue and returns its length.  read(buf) is the same with the filled
\* slots it observes with the tail it has cached or loads: WouldBlock when
\* it observes none, otherwise exactly that many of the oldest bytes are
\* copied out in order and removed.
C24_ByteAdaptersObserved ==
    /\ [][ \A buf \in Bufs : (Len(buf) > 0 /\ IoWrite(buf)) =>
              /\ ObservedFree' <= capacity - Filled
              /\ head_mo' = <<head>> => ObservedFree' = capacity - Filled
              /\ IF ObservedFree' = 0
                 THEN /\ p_ret' = Ret("write", << >>, "WouldBlock", 0)
                      /\ p_pc' = "idle"
                      /\ p_chunk' = NoChunk
                      /\ UNCHANGED <<head, tail, slots, p_tail>>
                 ELSE /\ p_ret'.res = "pending"
                      /\ p_ret'.arg = buf
                      /\ p_ret'.val = Min(Len(buf), ObservedFree') ]_vars
    /\ [][ IoWriteRetry =>
              /\ p_pc' = "io_copy"
              /\ ChunkLen(p_chunk') = p_ret.val
              /\ p_ret' = p_ret ]_vars
    /\ [](p_pc = "io_copy" => ChunkLen(p_chunk) = p_ret.val)
    /\ [][ IoWriteCommit =>
              /\ p_ret' = Ret("write", << >>, "Ok", p_ret.val)
              /\ popped = << >>
              /\ pushed' = pushed \o SubSeq(p_ret.arg, 1, p_ret.val)
              /\ AbsQueue' = AbsQueue \o SubSeq(p_ret.arg, 1, p_ret.val)
              /\ head' = head ]_vars
    /\ [][ \A m \in 1 .. capacity + 1 : IoRead(m) =>
              /\ ObservedFilled' <= Filled
              /\ tail_mo' = <<tail>> => ObservedFilled' = Filled
              /\ IF ObservedFilled' = 0
                 THEN /\ c_ret' = Ret("read", 0, "WouldBlock", << >>)
                      /\ c_pc' = "idle"
                      /\ c_chunk' = NoChunk
                      /\ UNCHANGED <<head, tail, slots, c_head>>
                 ELSE /\ c_ret'.res = "pending"
                      /\ c_ret'.arg = Min(m, ObservedFilled') ]_vars
    /\ [][ IoReadRetry =>
              /\ c_pc' = "io_copy"
              /\ ChunkLen(c_chunk') = c_ret.arg
              /\ c_ret' = c_ret ]_vars
    /\ [](c_pc = "io_copy" => ChunkLen(c_chunk) = c_ret.arg)
    /\ [][ IoReadCommit =>
              /\ c_ret'.res = "Ok"
              /\ Len(c_ret'.val) = c_ret.arg
              /\ Len(pushed) >= c_ret.arg
              /\ c_ret'.val = SubSeq(pushed, 1, c_ret.arg)
              /\ pushed' = SubSeq(pushed, c_ret.arg + 1, Len(pushed))
              /\ popped' = << >>
              /\ AbsQueue = c_ret'.val \o AbsQueue'
              /\ tail' = tail ]_vars

\* As in the example of the spec, scaled to capacity 2: a write has returned
\* 2, the capacity, and the read after it has returned 2 bytes, which are
\* not equal, from a chunk that wrapped around the end of the storage.
C24_Witness ==
    /\ capacity = 2
    /\ p_ret = Ret("write", << >>, "Ok", 2)
    /\ c_ret.op = "read"
    /\ c_ret.res = "Ok"
    /\ Len(c_ret.val) = 2
    /\ c_ret.val[1] # c_ret.val[2]
    /\ head = 3
    /\ tail = 3

\* C25: the Producer's cached head is a lower bound on the shared head in
\* ring order: going from the cached head to the shared head and on to the
\* shared tail is going from the cached head to the tail, which is at most
\* capacity positions; the Consumer's cached tail is a lower bound on the
\* shared tail: it is no further from the head than the tail is.  So the
\* free slots the Producer computes from its cache are at most the slots
\* that are free, and the filled slots the Consumer computes from its cache
\* are at most the values the queue holds.
C25_CachesAreLowerBounds ==
    /\ distance(p_head, head) + distance(head, tail) = distance(p_head, tail)
    /\ distance(p_head, tail) <= capacity
    /\ distance(head, c_tail) <= distance(head, tail)
    /\ popped = << >>
    /\ capacity - distance(p_head, p_tail) <= capacity - Filled
    /\ capacity - distance(p_head, p_tail) >= 0
    /\ distance(c_head, c_tail) <= Filled

\* C26: the shared tail is changed by steps of the Producer only and the
\* shared head by steps of the Consumer only: no step of the Producer
\* changes the head, none of the Consumer the tail, and neither changes the
\* other endpoint's copies.  The Producer's tail is the shared tail and the
\* Consumer's head is the shared head in every state (each store to the
\* index and the update of the endpoint's copy are one step of the model, so
\* the two are never seen apart).
C26_EachIndexHasOneWriter ==
    /\ [][ /\ ProducerStep => (head' = head /\ c_head' = c_head
                                 /\ c_tail' = c_tail)
           /\ ConsumerStep => (tail' = tail /\ p_tail' = p_tail
                                 /\ p_head' = p_head)
           /\ tail' # tail => (ProducerStep /\ pvars' # pvars)
           /\ head' # head => (ConsumerStep /\ cvars' # cvars) ]_vars
    /\ [](p_tail = tail)
    /\ [](c_head = head)

\* Both indices have moved, neither endpoint is inside an operation, and
\* each endpoint's copy of the other's index is behind.
C26_Witness ==
    /\ p_pc = "idle"
    /\ c_pc = "idle"
    /\ tail # 0
    /\ head # 0
    /\ p_head # head
    /\ c_tail # tail

\* The slots of the positions from head to tail in ring order.
HeadToTail ==
    { collapse_position(increment(head, i)) :
        i \in 0 .. distance(head, tail) - 1 }

\* C27: the slots of the positions from head to tail in ring order, one slot
\* for each position, are the slots that hold a live value (a value
\* published and not consumed), each of them holds a value of the element
\* type, and no other slot holds a live value: what another slot holds (the
\* bits of a value moved out, a default value or a value written into a
\* chunk that is not committed) is no value of the queue.
C27_LiveSlotsAreHeadToTail ==
    /\ live = HeadToTail
    /\ Cardinality(HeadToTail) = distance(head, tail)
    /\ \A s \in HeadToTail : slots[s] \in Values
    /\ \A s \in (0 .. capacity - 1) \ HeadToTail : s \notin live
    /\ popped = << >>
    /\ AbsQueue = pushed

\* C28: push and pop are the chunk operations for one slot.  Called by an
\* idle Producer, push is refused exactly when write_chunk_maybe_uninit(1)
\* is, which then reports 0 slots; both load the shared head in the same
\* cases and, given the same value by the load, leave the same cached head;
\* the slot
\* push writes is the one slot of the chunk; and the tail push stores,
\* increment1(tail), is the tail commit_all on that chunk stores,
\* increment(tail, 1).  The same holds of pop, read_chunk(1), the cached
\* tail and the head.
C28_FastPathIsChunkOfOne ==
    /\ p_pc = "idle" =>
          \A h \in Loads(head_mo) :
          LET r == next_tail(h)
              w == write_chunk_maybe_uninit(1, h)
          IN  /\ r.some = w.ok
              /\ r.load = w.load
              /\ r.head = w.head
              /\ ~w.ok => w.slots = 0
              /\ w.ok => /\ ChunkLen(w.chunk) = 1
                         /\ ChunkSlot(w.chunk, 0) = collapse_position(r.tail)
                         /\ increment1(r.tail) = increment(p_tail, 1)
    /\ p_pc \in {"push_write", "push_store"} =>
          increment1(p_tail) = increment(p_tail, 1)
    /\ c_pc = "idle" =>
          \A t \in Loads(tail_mo) :
          LET r == next_head(t)
              w == read_chunk(1, t)
          IN  /\ r.some = w.ok
              /\ r.load = w.load
              /\ r.tail = w.tail
              /\ ~w.ok => w.slots = 0
              /\ w.ok => /\ ChunkLen(w.chunk) = 1
                         /\ ChunkSlot(w.chunk, 0) = collapse_position(r.head)
                         /\ increment1(r.head) = increment(c_head, 1)
    /\ c_pc \in {"pop_read", "pop_store"} =>
          increment1(c_head) = increment(c_head, 1)


\* The slot a chunk of the ring holds at offset i in ring order: the slots
\* from the chunk's first one on, around the end of the storage.
RingSlot(ch, i) == (ch.first + i) % capacity

\* What next() did to the chunk `ch` with the result `ret`, the chunk being
\* `ch2` afterwards: it yielded the slot at the cursor in ring order and
\* moved the cursor by one, or the cursor was at the end and it yielded
\* nothing and moved nothing.
YieldsNextInRingOrder(ch, ch2, ret) ==
    IF ch.iterated < ChunkLen(ch)
    THEN /\ ret.res = "Some"
         /\ ret.val = RingSlot(ch, ch.iterated)
         /\ ch2 = [ch EXCEPT !.iterated = ch.iterated + 1]
    ELSE /\ ret.res = "None"
         /\ ch2 = ch

\* C29: iterating a chunk of n slots yields its n slots once each in ring
\* order and then ends; the iterated counter counts the slots yielded and
\* never exceeds n; iteration changes no index; commit_iterated commits the
\* iterated count: after j slots of a read chunk are iterated, it removes
\* exactly the j oldest values, and on a write chunk it publishes the j
\* values of the iterated slots.
C29_IterationAndCommitIterated ==
    /\ [](p_pc = "wchunk" =>
            /\ p_chunk.iterated <= ChunkLen(p_chunk)
            /\ Cardinality(ChunkSlots(p_chunk)) = ChunkLen(p_chunk))
    /\ [](c_pc = "rchunk" =>
            /\ c_chunk.iterated <= ChunkLen(c_chunk)
            /\ Cardinality(ChunkSlots(c_chunk)) = ChunkLen(c_chunk))
    /\ [][WChunkNext =>
            /\ YieldsNextInRingOrder(p_chunk, p_chunk', p_ret')
            /\ UNCHANGED <<shared, p_head, p_tail, c_head, c_tail,
                           pushed, popped, live>>]_vars
    /\ [][RChunkNext =>
            /\ YieldsNextInRingOrder(c_chunk, c_chunk', c_ret')
            /\ UNCHANGED <<shared, p_head, p_tail, c_head, c_tail,
                           pushed, popped, live>>]_vars
    /\ [][WChunkCommitIterated =>
            /\ distance(tail, tail') = p_chunk.iterated
            /\ AbsQueue' = AbsQueue \o ChunkValues(p_chunk, p_chunk.iterated)
            /\ UNCHANGED <<head, slots>>]_vars
    /\ [][RChunkCommitIterated =>
            /\ c_chunk.iterated <= Len(AbsQueue)
            /\ AbsQueue =
                 ChunkValues(c_chunk, c_chunk.iterated) \o AbsQueue'
            /\ UNCHANGED <<tail, slots>>]_vars


\* C30: while a write chunk and a read chunk are alive together, in every
\* interleaving, the slots of the write chunk (those write_chunk is filling
\* or has filled with the default value included) and the slots of the read
\* chunk are disjoint, and nothing the producer does while the read chunk is
\* held (fill, write, commit, push) changes a slot of the read chunk.
C30_ChunksAreDisjoint ==
    /\ []((p_pc \in {"wfill", "wchunk"} /\ c_pc = "rchunk") =>
             ChunkSlots(p_chunk) \cap ChunkSlots(c_chunk) = {})
    /\ [][(c_pc = "rchunk" /\ c_pc' = "rchunk") =>
             \A s \in ChunkSlots(c_chunk) : slots'[s] = slots[s]]_vars


\* The Producer is between two calls and its last call reported a number of
\* free slots: slots() returned it, or a chunk request failed with
\* TooFewSlots of it.
ProducerObserved ==
    /\ p_pc = "idle"
    /\ \/ p_ret.op = "slots" /\ p_ret.res = "Ok"
       \/ /\ p_ret.op \in {"write_chunk_maybe_uninit", "write_chunk"}
          /\ p_ret.res = "TooFewSlots"

\* The same for the Consumer and a number of filled slots.
ConsumerObserved ==
    /\ c_pc = "idle"
    /\ \/ c_ret.op = "slots" /\ c_ret.res = "Ok"
       \/ c_ret.op = "read_chunk" /\ c_ret.res = "TooFewSlots"

\* C31: the availability an endpoint has observed stays valid until that
\* endpoint uses it.  After slots() returned m or a chunk request failed
\* with TooFewSlots(m), a request of the same endpoint for any k <= m slots,
\* made as its next call, succeeds, whatever the other endpoint has done in
\* between and whichever store a load of the other endpoint's index
\* returns; and the second request of write and of read, for the count that
\* the first one reported, never fails.
C31_ObservedAvailabilityStaysValid ==
    /\ [](ProducerObserved =>
            \A k \in 0 .. p_ret.val, h \in Loads(head_mo) :
                write_chunk_maybe_uninit(k, h).ok)
    /\ [](ConsumerObserved =>
            \A k \in 0 .. c_ret.val, t \in Loads(tail_mo) :
                read_chunk(k, t).ok)
    /\ [](p_pc = "io_retry" =>
            \A k \in 0 .. p_ret.val, h \in Loads(head_mo) :
                write_chunk_maybe_uninit(k, h).ok)
    /\ [](c_pc = "io_retry" =>
            \A k \in 0 .. c_ret.arg, t \in Loads(tail_mo) :
                read_chunk(k, t).ok)
    /\ [][IoWriteRetry =>
            /\ p_pc' = "io_copy"
            /\ ChunkLen(p_chunk') = p_ret.val]_vars
    /\ [][IoReadRetry =>
            /\ c_pc' = "io_copy"
            /\ ChunkLen(c_chunk') = c_ret.arg]_vars

\* The second request of write, for fewer bytes than buf has, has just been
\* granted, after the Consumer has moved the head by a pop since the
\* Producer loaded it.
C31_Witness ==
    /\ p_pc = "io_copy"
    /\ p_chunk.written = 0
    /\ p_ret.val < Len(p_ret.arg)
    /\ p_head # head
    /\ c_pc = "idle"
    /\ c_ret.op = "pop"

====
